---- MODULE Spec2Model ----
(***************************************************************************)
(* StageBridge: the mapping codec (interactive form encoders, the edit     *)
(* flow's decoder) and the CSV ingestion pipeline of the generator page.   *)
(*                                                                         *)
(* JavaScript strings are TLA+ strings; a character is a string of length  *)
(* one.  JavaScript numbers are integers plus the value NaN; an            *)
(* unassigned `let` is the value Undefined.                                *)
(***************************************************************************)
EXTENDS Integers, Sequences, FiniteSets, TLC

(***************************************************************************)
(* JavaScript values                                                       *)
(***************************************************************************)

\* parseInt of a string with no leading digits; also the result of any
\* arithmetic on it.
NaN == -777777

\* the value of `let control, value;` when no case of the switch assigns it
Undefined == -888888

jsSub(a, b) == IF a = NaN \/ b = NaN THEN NaN ELSE a - b

\* variant: the sum loses its second term
jsAdd_lost(a, b) == a

jsAdd(a, b) == IF a = NaN \/ b = NaN THEN NaN ELSE a + b

jsMul(a, b) == IF a = NaN \/ b = NaN THEN NaN ELSE a * b

\* a % n in JavaScript: the sign of the result is the sign of the dividend
jsMod(a, n) ==
    IF a = NaN THEN NaN
    ELSE IF a >= 0 THEN a % n
    ELSE 0 - ((0 - a) % n)

\* a > b in JavaScript: false whenever an operand is NaN
jsGt(a, b) == a # NaN /\ b # NaN /\ a > b

\* Math.floor(a / n) for n > 0
jsFloorDiv(a, n) ==
    IF a = NaN THEN NaN
    ELSE IF a >= 0 THEN a \div n
    ELSE 0 - ((0 - a + n - 1) \div n)

(***************************************************************************)
(* Strings                                                                 *)
(***************************************************************************)

CharAt(s, i) == SubSeq(s, i, i)

Digits == "0123456789"

UpperLetters == "ABCDEFGHIJKLMNOPQRSTUVWXYZ"

LowerLetters == "abcdefghijklmnopqrstuvwxyz"

\* 1-based position of the character c in the string tbl, 0 when absent
RECURSIVE posIn(_, _, _)
posIn(tbl, c, i) ==
    IF i > Len(tbl) THEN 0
    ELSE IF CharAt(tbl, i) = c THEN i
    ELSE posIn(tbl, c, i + 1)

isDigit(c) == posIn(Digits, c, 1) > 0

isAlpha(c) == posIn(UpperLetters, c, 1) > 0 \/ posIn(LowerLetters, c, 1) > 0

isSpace(c) == c \in {" ", "\t", "\r", "\n"}

\* String.prototype.charCodeAt(0) for the characters the parser compares
charCodeAt(c) ==
    IF posIn(UpperLetters, c, 1) > 0 THEN 64 + posIn(UpperLetters, c, 1)
    ELSE IF posIn(LowerLetters, c, 1) > 0 THEN 96 + posIn(LowerLetters, c, 1)
    ELSE IF posIn(Digits, c, 1) > 0 THEN 47 + posIn(Digits, c, 1)
    ELSE IF c = " " THEN 32
    ELSE IF c = "_" THEN 95
    ELSE IF c = "{" THEN 123
    ELSE 33

\* String.fromCharCode(n)
fromCharCode(n) ==
    IF n = NaN THEN "?"
    ELSE IF n >= 65 /\ n <= 90 THEN CharAt(UpperLetters, n - 64)
    ELSE IF n >= 97 /\ n <= 122 THEN CharAt(LowerLetters, n - 96)
    ELSE IF n >= 48 /\ n <= 57 THEN CharAt(Digits, n - 47)
    ELSE "?"

upperChar(c) ==
    IF posIn(LowerLetters, c, 1) > 0
    THEN CharAt(UpperLetters, posIn(LowerLetters, c, 1))
    ELSE c

lowerChar(c) ==
    IF posIn(UpperLetters, c, 1) > 0
    THEN CharAt(LowerLetters, posIn(UpperLetters, c, 1))
    ELSE c

RECURSIVE toUpperCase(_)
toUpperCase(s) ==
    IF Len(s) = 0 THEN ""
    ELSE upperChar(CharAt(s, 1)) \o toUpperCase(SubSeq(s, 2, Len(s)))

RECURSIVE toLowerCase(_)
toLowerCase(s) ==
    IF Len(s) = 0 THEN ""
    ELSE lowerChar(CharAt(s, 1)) \o toLowerCase(SubSeq(s, 2, Len(s)))

RECURSIVE trimStart(_)
trimStart(s) ==
    IF Len(s) > 0 /\ isSpace(CharAt(s, 1))
    THEN trimStart(SubSeq(s, 2, Len(s)))
    ELSE s

RECURSIVE trimEnd(_)
trimEnd(s) ==
    IF Len(s) > 0 /\ isSpace(CharAt(s, Len(s)))
    THEN trimEnd(SubSeq(s, 1, Len(s) - 1))
    ELSE s

\* String.prototype.trim
trim(s) == trimEnd(trimStart(s))

\* String.prototype.split(sep) for a one-character separator: always at
\* least one piece
RECURSIVE splitFrom(_, _, _, _)
splitFrom(s, sep, i, cur) ==
    IF i > Len(s) THEN <<cur>>
    ELSE IF CharAt(s, i) = sep THEN <<cur>> \o splitFrom(s, sep, i + 1, "")
    ELSE splitFrom(s, sep, i + 1, cur \o CharAt(s, i))

split(s, sep) == splitFrom(s, sep, 1, "")

\* Array.prototype.map(x => x.trim())
mapTrim(xs) == [i \in 1..Len(xs) |-> trim(xs[i])]

\* Array.prototype.indexOf: 0-based, -1 when absent
RECURSIVE indexOfFrom(_, _, _)
indexOfFrom(xs, x, i) ==
    IF i > Len(xs) THEN -1
    ELSE IF xs[i] = x THEN i - 1
    ELSE indexOfFrom(xs, x, i + 1)

indexOf(xs, x) == indexOfFrom(xs, x, 1)

\* Array.prototype.join(sep)
RECURSIVE join(_, _)
join(xs, sep) ==
    IF Len(xs) = 0 THEN ""
    ELSE IF Len(xs) = 1 THEN xs[1]
    ELSE xs[1] \o sep \o join(Tail(xs), sep)

\* String.prototype.startsWith
startsWith(s, p) == Len(p) <= Len(s) /\ SubSeq(s, 1, Len(p)) = p

\* 1-based start of the first occurrence of p in s at or after i, 0 if none
RECURSIVE findFrom(_, _, _)
findFrom(s, p, i) ==
    IF i + Len(p) - 1 > Len(s) THEN 0
    ELSE IF SubSeq(s, i, i + Len(p) - 1) = p THEN i
    ELSE findFrom(s, p, i + 1)

\* String.prototype.replace(p, "") with a string pattern: the first
\* occurrence only
removeFirst(s, p) ==
    LET at == findFrom(s, p, 1) IN
    IF at = 0 THEN s
    ELSE SubSeq(s, 1, at - 1) \o SubSeq(s, at + Len(p), Len(s))

\* the longest run of digits of s starting at i
RECURSIVE digitRun(_, _)
digitRun(s, i) ==
    IF i <= Len(s) /\ isDigit(CharAt(s, i))
    THEN CharAt(s, i) \o digitRun(s, i + 1)
    ELSE ""

\* value.match(/\d+/): the first digit run, "" standing for null
RECURSIVE matchDigitsFrom(_, _)
matchDigitsFrom(s, i) ==
    IF i > Len(s) THEN ""
    ELSE IF isDigit(CharAt(s, i)) THEN digitRun(s, i)
    ELSE matchDigitsFrom(s, i + 1)

matchDigits(s) == matchDigitsFrom(s, 1)

\* value.match(/[a-zA-Z]/): the first letter, "" standing for null
RECURSIVE matchAlphaFrom(_, _)
matchAlphaFrom(s, i) ==
    IF i > Len(s) THEN ""
    ELSE IF isAlpha(CharAt(s, i)) THEN CharAt(s, i)
    ELSE matchAlphaFrom(s, i + 1)

matchAlpha(s) == matchAlphaFrom(s, 1)

\* the value of a digit string read left to right
RECURSIVE digitsValue(_, _)
digitsValue(s, acc) ==
    IF Len(s) = 0 THEN acc
    ELSE digitsValue(SubSeq(s, 2, Len(s)),
                     acc * 10 + (posIn(Digits, CharAt(s, 1), 1) - 1))

\* parseInt(s): leading white space, an optional sign, then the leading
\* digit run; NaN when there is none
parseInt(s) ==
    LET t   == trimStart(s)
        neg == Len(t) > 0 /\ CharAt(t, 1) = "-"
        u   == IF Len(t) > 0 /\ CharAt(t, 1) \in {"-", "+"}
               THEN SubSeq(t, 2, Len(t)) ELSE t
        run == digitRun(u, 1)
    IN  IF Len(run) = 0 THEN NaN
        ELSE IF neg THEN 0 - digitsValue(run, 0)
        ELSE digitsValue(run, 0)

\* the decimal digits of n >= 0
RECURSIVE natToString(_)
natToString(n) ==
    IF n < 10 THEN CharAt(Digits, n + 1)
    ELSE natToString(n \div 10) \o CharAt(Digits, (n % 10) + 1)

\* String(n), as in a template literal or an assignment to element.value
numToString(n) ==
    IF n = NaN THEN "NaN"
    ELSE IF n = Undefined THEN "undefined"
    ELSE IF n < 0 THEN "-" \o natToString(0 - n)
    ELSE natToString(n)

(***************************************************************************)
(* MIDI events and mappings                                                *)
(***************************************************************************)

\* { type: "control_change", channel, control, value }
ControlChange(ch, c, v) ==
    [type |-> "control_change", channel |-> ch, control |-> c, value |-> v]

\* { type: "program_change", channel, program }
ProgramChange(ch, p) ==
    [type |-> "program_change", channel |-> ch, program |-> p]

\* m.control, m.value, m.program: undefined when the event has no such key
evControl(m) == IF "control" \in DOMAIN m THEN m.control ELSE Undefined

evValue(m) == IF "value" \in DOMAIN m THEN m.value ELSE Undefined

evProgram(m) == IF "program" \in DOMAIN m THEN m.program ELSE Undefined

\* the three outcomes of an encoder or of a handler that calls one
ResultNone == [kind |-> "none"]

ResultNull == [kind |-> "null"]

ResultThrow == [kind |-> "throw"]

\* the browser refused to fire the submit event (constraint validation)
ResultBlocked == [kind |-> "blocked"]

Mapping(addr, desc, seq) ==
    [kind |-> "mapping", osc_address |-> addr, description |-> desc,
     midi_sequence |-> seq]

(***************************************************************************)
(* The mapping form (the DOM the encoders read and the decoder writes)     *)
(***************************************************************************)

CategoryOptions == {"", "patch", "scene", "footswitch", "mode_view", "looper"}

LetterOptions == {"0", "1", "2", "3", "4", "5", "6", "7"}

FootswitchOptions == {"35", "36", "37", "38", "39", "40", "41", "42"}

ModeViewOptions ==
    {"mode_preset", "mode_scene", "mode_stomp", "tuner_on", "tuner_off",
     "gig_view_on", "gig_view_off"}

LooperOptions ==
    {"rec_stop", "play_stop", "undo_redo", "half_speed", "reverse",
     "one_shot", "looper_menu_open", "looper_menu_close"}

\* option.text of the mode/view select
ModeViewText(a) ==
    CASE a = "mode_preset"  -> "Switch to Preset Mode"
      [] a = "mode_scene"   -> "Switch to Scene Mode"
      [] a = "mode_stomp"   -> "Switch to Stomp Mode"
      [] a = "tuner_on"     -> "Turn Tuner On"
      [] a = "tuner_off"    -> "Turn Tuner Off"
      [] a = "gig_view_on"  -> "Turn Gig View On"
      [] a = "gig_view_off" -> "Turn Gig View Off"

\* option.text of the looper select
LooperText(a) ==
    CASE a = "rec_stop"          -> "Record / Overdub / Stop"
      [] a = "play_stop"         -> "Play / Stop"
      [] a = "undo_redo"         -> "Undo / Redo"
      [] a = "half_speed"        -> "Toggle Half Speed"
      [] a = "reverse"           -> "Toggle Reverse"
      [] a = "one_shot"          -> "Toggle One Shot"
      [] a = "looper_menu_open"  -> "Open Looper Menu"
      [] a = "looper_menu_close" -> "Close Looper Menu"

\* option.text of the footswitch select: value 35..42 shows A..H
FootswitchText(v) == fromCharCode(65 + (parseInt(v) - 35))

\* form.reset(): every control back to the value the markup gives it
FormDefault ==
    [osc_address       |-> "",
     mapping_type      |-> "midi",
     category          |-> "",
     patch_setlist     |-> "1",
     patch_number      |-> "1",
     patch_letter      |-> "0",
     scene_select      |-> "0",
     footswitch_select |-> "35",
     mode_view_select  |-> "mode_preset",
     looper_select     |-> "rec_stop"]

\* select.value = v: the option with that value becomes selected; with no
\* such option nothing is selected and select.value reads ""
setSelect(options, v) == IF v \in options THEN v ELSE ""

\* the lower and upper limits of the two number inputs
SetlistMin == 1

SetlistMax == 13

PatchNumberMin == 1

PatchNumberMax == 32

\* a number input satisfies its min/max: an empty one (not `required`) does
inRange(text, lo, hi) ==
    text = "" \/ (parseInt(text) # NaN /\ parseInt(text) >= lo /\ parseInt(text) <= hi)

\* the browser's constraint validation of the mapping form: the submit
\* event fires only when it passes
constraintValid(f) ==
    /\ f.osc_address # ""
    /\ inRange(f.patch_setlist, SetlistMin, SetlistMax)
    /\ inRange(f.patch_number, PatchNumberMin, PatchNumberMax)

(***************************************************************************)
(* Encoders                                                                *)
(***************************************************************************)

Channel == 1

\* faulty variant of bankOf: the threshold is off by one
bankOf_offByOne(presetIndex) == IF jsGt(presetIndex, 128) THEN 1 ELSE 0

\* bank-select value of a preset index
bankOf(presetIndex) == IF jsGt(presetIndex, 127) THEN 1 ELSE 0

\* faulty variant of encodePatch: the program is not reduced modulo 128
encodePatch_noWrap(f) ==
    LET setlist        == jsSub(parseInt(f.patch_setlist), 1)
        patchNum       == parseInt(f.patch_number)
        patchLetterVal == parseInt(f.patch_letter)
        presetIndex    == jsAdd(jsMul(jsSub(patchNum, 1), 8), patchLetterVal)
    IN  [description |-> "QC: Setlist " \o numToString(jsAdd(setlist, 1))
                         \o ", Patch " \o numToString(patchNum)
                         \o fromCharCode(jsAdd(65, patchLetterVal)),
         midi_sequence |-> << ControlChange(Channel, 0, bankOf(presetIndex)),
                              ControlChange(Channel, 32, setlist),
                              ProgramChange(Channel, presetIndex) >>]

\* case "patch" of the form encoders
encodePatch(f) ==
    LET setlist        == jsSub(parseInt(f.patch_setlist), 1)
        patchNum       == parseInt(f.patch_number)
        patchLetterVal == parseInt(f.patch_letter)
        patchLetterChar == fromCharCode(jsAdd(65, patchLetterVal))
        presetIndex    == jsAdd(jsMul(jsSub(patchNum, 1), 8), patchLetterVal)
        bank           == bankOf(presetIndex)
        program        == jsMod(presetIndex, 128)
    IN  [description |-> "QC: Setlist " \o numToString(jsAdd(setlist, 1))
                         \o ", Patch " \o numToString(patchNum) \o patchLetterChar,
         midi_sequence |-> << ControlChange(Channel, 0, bank),
                              ControlChange(Channel, 32, setlist),
                              ProgramChange(Channel, program) >>]

\* case "scene" of the form encoders
encodeScene(f) ==
    LET sceneVal == parseInt(f.scene_select) IN
    [description |-> "QC: Select Scene " \o fromCharCode(jsAdd(65, sceneVal)),
     midi_sequence |-> << ControlChange(Channel, 43, sceneVal) >>]

\* variant: every footswitch is sent on the control of footswitch A
encodeFootswitch_alwaysA(f) ==
    [description |-> "QC: Toggle Footswitch " \o FootswitchText(f.footswitch_select),
     midi_sequence |-> << ControlChange(Channel, 35, 127) >>]

\* case "footswitch" of the form encoders (the letter is the option's text)
encodeFootswitch(f) ==
    LET control == parseInt(f.footswitch_select) IN
    [description |-> "QC: Toggle Footswitch " \o FootswitchText(f.footswitch_select),
     midi_sequence |-> << ControlChange(Channel, control, 127) >>]

\* switch (action) of case "mode_view": <<control, value>>
modeViewPair(action) ==
    CASE action = "mode_preset"  -> <<47, 0>>
      [] action = "mode_scene"   -> <<47, 1>>
      [] action = "mode_stomp"   -> <<47, 2>>
      [] action = "tuner_on"     -> <<45, 127>>
      [] action = "tuner_off"    -> <<45, 0>>
      [] action = "gig_view_on"  -> <<46, 127>>
      [] action = "gig_view_off" -> <<46, 0>>
      [] OTHER                   -> <<Undefined, Undefined>>

\* variant: the menu is opened with the preset value 127, as it is closed
looperPair_oneMenu(action) ==
    CASE action = "rec_stop"          -> <<53, 127>>
      [] action = "play_stop"         -> <<54, 127>>
      [] action = "undo_redo"         -> <<56, 127>>
      [] action = "half_speed"        -> <<51, 127>>
      [] action = "reverse"           -> <<55, 127>>
      [] action = "one_shot"          -> <<50, 127>>
      [] action = "looper_menu_open"  -> <<48, 127>>
      [] action = "looper_menu_close" -> <<48, 127>>
      [] OTHER                        -> <<Undefined, 127>>

\* switch (action) of case "looper": <<control, value>>, value preset to 127
looperPair(action) ==
    CASE action = "rec_stop"          -> <<53, 127>>
      [] action = "play_stop"         -> <<54, 127>>
      [] action = "undo_redo"         -> <<56, 127>>
      [] action = "half_speed"        -> <<51, 127>>
      [] action = "reverse"           -> <<55, 127>>
      [] action = "one_shot"          -> <<50, 127>>
      [] action = "looper_menu_open"  -> <<48, 0>>
      [] action = "looper_menu_close" -> <<48, 127>>
      [] OTHER                        -> <<Undefined, 127>>

\* switch (category) of generateMappingFromForm: the description and the
\* sequence, or a TypeError when select.options[select.selectedIndex] is
\* undefined (nothing selected, select.value "")
switchCategory(f) ==
    CASE f.category = "patch" ->
            [kind |-> "ok"] @@ encodePatch(f)
      [] f.category = "scene" ->
            [kind |-> "ok"] @@ encodeScene(f)
      [] f.category = "footswitch" ->
            IF f.footswitch_select = "" THEN ResultThrow
            ELSE [kind |-> "ok"] @@ encodeFootswitch(f)
      [] f.category = "mode_view" ->
            IF f.mode_view_select = "" THEN ResultThrow
            ELSE [kind |-> "ok",
                  description |-> "QC: " \o ModeViewText(f.mode_view_select),
                  midi_sequence |->
                      << ControlChange(Channel,
                                       modeViewPair(f.mode_view_select)[1],
                                       modeViewPair(f.mode_view_select)[2]) >>]
      [] f.category = "looper" ->
            IF f.looper_select = "" THEN ResultThrow
            ELSE [kind |-> "ok",
                  description |-> "QC Looper: " \o LooperText(f.looper_select),
                  midi_sequence |->
                      << ControlChange(Channel,
                                       looperPair(f.looper_select)[1],
                                       looperPair(f.looper_select)[2]) >>]
      [] OTHER ->
            [kind |-> "ok", description |-> "", midi_sequence |-> << >>]

\* faulty variant of missingField: the category is not looked at
missingField_addressOnly(f) == f.osc_address = ""

\* the guard that opens generateMappingFromForm
missingField(f) == f.osc_address = "" \/ f.category = ""

\* generateMappingFromForm of the client page
generateMappingFromForm(f) ==
    IF missingField(f) THEN ResultNull
    ELSE LET r == switchCategory(f) IN
         IF r.kind = "throw" THEN ResultThrow
         ELSE Mapping(f.osc_address, r.description, r.midi_sequence)

\* generateMappingFromForm of the first client page (frontend/public/app.js)
generateMappingFromForm_frontend(f) ==
    IF missingField(f) THEN ResultNull
    ELSE LET r == switchCategory(f) IN
         IF r.kind = "throw" THEN ResultThrow
         ELSE Mapping(f.osc_address, r.description, r.midi_sequence)

\* generateMappingFromForm of the generator page: the mapping gets an id
generateMappingFromForm_generator(f, id) ==
    IF missingField(f) THEN ResultNull
    ELSE LET r == switchCategory(f) IN
         IF r.kind = "throw" THEN ResultThrow
         ELSE [id |-> id] @@ Mapping(f.osc_address, r.description, r.midi_sequence)

\* generateModeViewSequence of templates/client.js: the lookup table, null
\* for an action that is not a key
generateModeViewSequence(action, channel) ==
    CASE action = "mode_preset" ->
            [kind |-> "ok", description |-> "QC: Switch to Preset Mode",
             midi_sequence |-> << ControlChange(channel, 71, 0) >>]
      [] action = "mode_scene" ->
            [kind |-> "ok", description |-> "QC: Switch to Scene Mode",
             midi_sequence |-> << ControlChange(channel, 71, 1) >>]
      [] action = "mode_stomp" ->
            [kind |-> "ok", description |-> "QC: Switch to Stomp Mode",
             midi_sequence |-> << ControlChange(channel, 71, 2) >>]
      [] action = "tuner_on" ->
            [kind |-> "ok", description |-> "QC: Turn Tuner On",
             midi_sequence |-> << ControlChange(channel, 68, 127) >>]
      [] action = "tuner_off" ->
            [kind |-> "ok", description |-> "QC: Turn Tuner Off",
             midi_sequence |-> << ControlChange(channel, 68, 0) >>]
      [] action = "gig_view_on" ->
            [kind |-> "ok", description |-> "QC: Turn Gig View On",
             midi_sequence |-> << ControlChange(channel, 72, 127) >>]
      [] action = "gig_view_off" ->
            [kind |-> "ok", description |-> "QC: Turn Gig View Off",
             midi_sequence |-> << ControlChange(channel, 72, 0) >>]
      [] OTHER -> ResultNull

\* generateLooperSequence of templates/client.js
generateLooperSequence(action, channel) ==
    CASE action = "rec_stop" ->
            [kind |-> "ok", description |-> "QC: Looper Record/Overdub/Stop",
             midi_sequence |-> << ControlChange(channel, 61, 127) >>]
      [] action = "play_stop" ->
            [kind |-> "ok", description |-> "QC: Looper Play/Stop",
             midi_sequence |-> << ControlChange(channel, 62, 127) >>]
      [] action = "undo_redo" ->
            [kind |-> "ok", description |-> "QC: Looper Undo/Redo",
             midi_sequence |-> << ControlChange(channel, 63, 127) >>]
      [] action = "half_speed" ->
            [kind |-> "ok", description |-> "QC: Looper Toggle Half Speed",
             midi_sequence |-> << ControlChange(channel, 64, 127) >>]
      [] action = "reverse" ->
            [kind |-> "ok", description |-> "QC: Looper Toggle Reverse",
             midi_sequence |-> << ControlChange(channel, 65, 127) >>]
      [] action = "one_shot" ->
            [kind |-> "ok", description |-> "QC: Looper Toggle One Shot",
             midi_sequence |-> << ControlChange(channel, 66, 127) >>]
      [] action = "looper_menu_open" ->
            [kind |-> "ok", description |-> "QC: Open Looper Menu",
             midi_sequence |-> << ControlChange(channel, 67, 127) >>]
      [] action = "looper_menu_close" ->
            [kind |-> "ok", description |-> "QC: Close Looper Menu",
             midi_sequence |-> << ControlChange(channel, 67, 0) >>]
      [] OTHER -> ResultNull

\* generateMidiSequence of templates/client.js: null for an unknown category
\* (the footswitch letter is computed from the control, not read from the
\* option)
generateMidiSequence(f) ==
    CASE f.category = "patch" -> [kind |-> "ok"] @@ encodePatch(f)
      [] f.category = "scene" -> [kind |-> "ok"] @@ encodeScene(f)
      [] f.category = "footswitch" ->
            LET fsControl == parseInt(f.footswitch_select) IN
            [kind |-> "ok",
             description |-> "QC: Toggle Footswitch "
                             \o fromCharCode(jsAdd(65, jsSub(fsControl, 35))),
             midi_sequence |-> << ControlChange(Channel, fsControl, 127) >>]
      [] f.category = "mode_view" ->
            generateModeViewSequence(f.mode_view_select, Channel)
      [] f.category = "looper" ->
            generateLooperSequence(f.looper_select, Channel)
      [] OTHER -> ResultNull

\* handleMappingFormSubmit of templates/client.js, OSC-to-MIDI branch: the
\* mapping that is sent, or null when the handler returns after an alert
handleMappingFormSubmit(f) ==
    IF f.category = "" THEN ResultNull
    ELSE LET midiData == generateMidiSequence(f) IN
         IF midiData.kind = "null" THEN ResultNull
         ELSE [mapping_type |-> f.mapping_type]
              @@ Mapping(f.osc_address, midiData.description, midiData.midi_sequence)

(***************************************************************************)
(* Decoder: the edit flow                                                  *)
(***************************************************************************)

isCC(m) == m.type = "control_change"

\* Array.prototype.some over the events
someCC(seq, controls) ==
    \E i \in 1..Len(seq) : isCC(seq[i]) /\ evControl(seq[i]) \in controls

somePC(seq) == \E i \in 1..Len(seq) : seq[i].type = "program_change"

\* Array.prototype.find(m => m.control ...): the index of the first event
\* whose control is in the set, 0 for undefined (the type is not looked at)
findControl(seq, controls) ==
    IF \E i \in 1..Len(seq) : evControl(seq[i]) \in controls
    THEN CHOOSE i \in 1..Len(seq) :
            /\ evControl(seq[i]) \in controls
            /\ \A j \in 1..(i - 1) : evControl(seq[j]) \notin controls
    ELSE 0

\* Array.prototype.find(m => m.type === "program_change")
findPC(seq) ==
    IF somePC(seq)
    THEN CHOOSE i \in 1..Len(seq) :
            /\ seq[i].type = "program_change"
            /\ \A j \in 1..(i - 1) : seq[j].type # "program_change"
    ELSE 0

\* the control numbers the decoder reads as mode/view and as looper
DecodeModeViewControls == {45, 46, 47}

DecodeLooperControls == {48, 50, 51, 53, 54, 55, 56}

\* faulty variant of decodeCategory: a patch does not need a program change
decodeCategory_noProgramChange(seq) ==
    IF someCC(seq, {0}) /\ someCC(seq, {32}) THEN "patch"
    ELSE IF someCC(seq, {43}) THEN "scene"
    ELSE IF someCC(seq, 35..42) THEN "footswitch"
    ELSE IF someCC(seq, DecodeModeViewControls) THEN "mode_view"
    ELSE IF someCC(seq, DecodeLooperControls) THEN "looper"
    ELSE ""

\* the if / else-if chain that picks the category, "" when none matches
decodeCategory(seq) ==
    IF someCC(seq, {0}) /\ someCC(seq, {32}) /\ somePC(seq) THEN "patch"
    ELSE IF someCC(seq, {43}) THEN "scene"
    ELSE IF someCC(seq, 35..42) THEN "footswitch"
    ELSE IF someCC(seq, DecodeModeViewControls) THEN "mode_view"
    ELSE IF someCC(seq, DecodeLooperControls) THEN "looper"
    ELSE ""

\* x || d for a number: d when x is undefined, 0 or NaN
orDefault(x, d) == IF x = Undefined \/ x = NaN \/ x = 0 THEN d ELSE x

\* case "mode_view" of the decoder: the action of the first event
decodeModeViewAction(msg) ==
    IF evControl(msg) = 47
    THEN (IF evValue(msg) = 0 THEN "mode_preset"
          ELSE IF evValue(msg) = 1 THEN "mode_scene"
          ELSE IF evValue(msg) = 2 THEN "mode_stomp"
          ELSE "")
    ELSE IF evControl(msg) = 45
    THEN (IF evValue(msg) = 0 THEN "tuner_off" ELSE "tuner_on")
    ELSE IF evControl(msg) = 46
    THEN (IF evValue(msg) = 0 THEN "gig_view_off" ELSE "gig_view_on")
    ELSE ""

\* case "looper" of the decoder: the action of the first event
decodeLooperAction(msg) ==
    IF evControl(msg) = 53 THEN "rec_stop"
    ELSE IF evControl(msg) = 54 THEN "play_stop"
    ELSE IF evControl(msg) = 56 THEN "undo_redo"
    ELSE IF evControl(msg) = 51 THEN "half_speed"
    ELSE IF evControl(msg) = 55 THEN "reverse"
    ELSE IF evControl(msg) = 50 THEN "one_shot"
    ELSE IF evControl(msg) = 48
    THEN (IF evValue(msg) = 0 THEN "looper_menu_open" ELSE "looper_menu_close")
    ELSE ""

\* faulty variant of decodePatch: the bank is not counted in the preset index
decodePatch_ignoreBank(seq, f) ==
    LET setlistAt == findControl(seq, {32})
        pcAt      == findPC(seq)
        setlist   == IF setlistAt # 0 THEN evValue(seq[setlistAt]) ELSE 0
        program   == IF pcAt # 0 THEN evProgram(seq[pcAt]) ELSE 0
    IN  [f EXCEPT !.patch_setlist = numToString(jsAdd(setlist, 1)),
                  !.patch_number  = numToString(jsAdd(jsFloorDiv(program, 8), 1)),
                  !.patch_letter  = setSelect(LetterOptions, numToString(jsMod(program, 8)))]

\* case "patch" of the decoder: the three fields it writes
decodePatch(seq, f) ==
    LET setlistAt == findControl(seq, {32})
        bankAt    == findControl(seq, {0})
        pcAt      == findPC(seq)
        setlist   == IF setlistAt # 0 THEN evValue(seq[setlistAt]) ELSE 0
        bank      == IF bankAt # 0 THEN evValue(seq[bankAt]) ELSE 0
        program   == IF pcAt # 0 THEN evProgram(seq[pcAt]) ELSE 0
        presetIndex    == jsAdd(jsMul(bank, 128), program)
        patchNum       == jsAdd(jsFloorDiv(presetIndex, 8), 1)
        patchLetterVal == jsMod(presetIndex, 8)
    IN  [f EXCEPT !.patch_setlist = numToString(jsAdd(setlist, 1)),
                  !.patch_number  = numToString(patchNum),
                  !.patch_letter  = setSelect(LetterOptions, numToString(patchLetterVal))]

\* populateFormForEdit: the form it leaves, or a TypeError when
\* mapping.midi_sequence is undefined and cannot be spread
populateFormForEdit(mapping) ==
    IF "midi_sequence" \notin DOMAIN mapping THEN ResultThrow
    ELSE
    LET seq      == mapping.midi_sequence
        category == decodeCategory(seq)
        f0       == [FormDefault EXCEPT !.osc_address = mapping.osc_address,
                                        !.category = setSelect(CategoryOptions, category)]
    IN  [kind |-> "ok",
         form |->
            CASE category = "patch" -> decodePatch(seq, f0)
              [] category = "scene" ->
                    [f0 EXCEPT !.scene_select =
                        setSelect(LetterOptions,
                            numToString(orDefault(evValue(seq[findControl(seq, {43})]), 0)))]
              [] category = "footswitch" ->
                    [f0 EXCEPT !.footswitch_select =
                        setSelect(FootswitchOptions,
                            numToString(orDefault(evControl(seq[findControl(seq, 35..42)]), 35)))]
              [] category = "mode_view" ->
                    [f0 EXCEPT !.mode_view_select =
                        setSelect(ModeViewOptions, decodeModeViewAction(seq[1]))]
              [] category = "looper" ->
                    [f0 EXCEPT !.looper_select =
                        setSelect(LooperOptions, decodeLooperAction(seq[1]))]
              [] OTHER -> f0]

\* editMapping of templates/client.js for a mapping it found: the address
\* and the mapping type are written, the category fields are not touched
editMapping(mapping, f) ==
    [kind |-> "ok",
     form |-> [f EXCEPT !.osc_address = mapping.osc_address,
                        !.mapping_type =
                            IF "mapping_type" \in DOMAIN mapping
                            THEN mapping.mapping_type ELSE "midi"]]

(***************************************************************************)
(* CSV ingestion: parseSongCsvJs                                           *)
(***************************************************************************)

\* fs_char.length === 1 && fs_char >= "A" && fs_char <= "H"
isLetterAtoH(t) ==
    Len(t) = 1 /\ charCodeAt(t) >= charCodeAt("A") /\ charCodeAt(t) <= charCodeAt("H")

\* the footswitch branch: [description, midi_sequence], the sequence empty
\* when the letter check fails
rowFootswitch(value, settings) ==
    LET fs_char == toUpperCase(trim(removeFirst(value, settings.footswitch_prefix))) IN
    IF isLetterAtoH(fs_char)
    THEN [description |-> "QC: Toggle Footswitch " \o fs_char,
          midi_sequence |->
            << ControlChange(Channel, 35 + (charCodeAt(fs_char) - charCodeAt("A")), 127) >>]
    ELSE [description |-> "", midi_sequence |-> << >>]

\* variant: the scene row is described in other words than the form's
rowScene_otherText(value, settings) ==
    LET sc_char == toUpperCase(trim(removeFirst(value, settings.scene_prefix))) IN
    IF isLetterAtoH(sc_char)
    THEN [description |-> "QC: Scene " \o sc_char,
          midi_sequence |->
            << ControlChange(Channel, 43, charCodeAt(sc_char) - charCodeAt("A")) >>]
    ELSE [description |-> "", midi_sequence |-> << >>]

\* the scene branch
rowScene(value, settings) ==
    LET sc_char == toUpperCase(trim(removeFirst(value, settings.scene_prefix))) IN
    IF isLetterAtoH(sc_char)
    THEN [description |-> "QC: Select Scene " \o sc_char,
          midi_sequence |->
            << ControlChange(Channel, 43, charCodeAt(sc_char) - charCodeAt("A")) >>]
    ELSE [description |-> "", midi_sequence |-> << >>]

\* faulty variant of rowPatch: a patch number below 1 is accepted
rowPatch_noLowerBound(value, setlistNumber) ==
    LET patchNumMatch  == matchDigits(value)
        patchCharMatch == matchAlpha(value)
        patchNum       == parseInt(patchNumMatch)
        patchChar      == toUpperCase(patchCharMatch)
        patchLetterVal == charCodeAt(patchChar) - charCodeAt("A")
        presetIndex    == (patchNum - 1) * 8 + patchLetterVal
    IN  IF /\ patchNumMatch # ""
           /\ patchCharMatch # ""
           /\ isLetterAtoH(patchChar)
        THEN [description |-> "QC: Setlist " \o numToString(jsAdd(setlistNumber, 1))
                              \o ", Patch " \o numToString(patchNum) \o patchChar,
              midi_sequence |-> << ControlChange(Channel, 0, bankOf(presetIndex)),
                                   ControlChange(Channel, 32, setlistNumber),
                                   ProgramChange(Channel, jsMod(presetIndex, 128)) >>]
        ELSE [description |-> "", midi_sequence |-> << >>]

\* the patch branch: first digit run and first letter of the value
rowPatch(value, setlistNumber) ==
    LET patchNumMatch  == matchDigits(value)
        patchCharMatch == matchAlpha(value)
        patchNum       == parseInt(patchNumMatch)
        patchChar      == toUpperCase(patchCharMatch)
        patchLetterVal == charCodeAt(patchChar) - charCodeAt("A")
        presetIndex    == (patchNum - 1) * 8 + patchLetterVal
        bank           == bankOf(presetIndex)
        program        == jsMod(presetIndex, 128)
    IN  IF /\ patchNumMatch # ""
           /\ patchCharMatch # ""
           /\ patchNum >= 1
           /\ isLetterAtoH(patchChar)
        THEN [description |-> "QC: Setlist " \o numToString(jsAdd(setlistNumber, 1))
                              \o ", Patch " \o numToString(patchNum) \o patchChar,
              midi_sequence |-> << ControlChange(Channel, 0, bank),
                                   ControlChange(Channel, 32, setlistNumber),
                                   ProgramChange(Channel, program) >>]
        ELSE [description |-> "", midi_sequence |-> << >>]

\* faulty variant of classifyRow: a value that fails the letter check of its
\* prefix is tried again as a patch
classifyRow_retry(value, setlistNumber, settings) ==
    LET viaPrefix ==
            IF startsWith(value, settings.footswitch_prefix) THEN rowFootswitch(value, settings)
            ELSE IF startsWith(value, settings.scene_prefix) THEN rowScene(value, settings)
            ELSE [description |-> "", midi_sequence |-> << >>]
    IN  IF Len(viaPrefix.midi_sequence) > 0 THEN viaPrefix
        ELSE rowPatch(value, setlistNumber)

\* the body of the try block for one row value
classifyRow(value, setlistNumber, settings) ==
    IF startsWith(value, settings.footswitch_prefix) THEN rowFootswitch(value, settings)
    ELSE IF startsWith(value, settings.scene_prefix) THEN rowScene(value, settings)
    ELSE rowPatch(value, setlistNumber)

\* faulty variant of scanRows: a value equal to the last one is not skipped
RECURSIVE scanRows_noDedup(_, _, _, _, _, _)
scanRows_noDedup(lines, i, columnIndex, lastValue, setlistNumber, settings) ==
    IF i > Len(lines) THEN << >>
    ELSE
    LET line   == trim(lines[i])
        values == mapTrim(split(line, ","))
        value  == IF Len(values) > columnIndex THEN trim(values[columnIndex + 1]) ELSE ""
        skip   == \/ line = ""
                  \/ Len(values) <= columnIndex
                  \/ value = ""
        enc    == classifyRow(value, setlistNumber, settings)
    IN  IF skip
        THEN scanRows_noDedup(lines, i + 1, columnIndex, lastValue, setlistNumber, settings)
        ELSE (IF Len(enc.midi_sequence) > 0 THEN << enc >> ELSE << >>)
             \o scanRows_noDedup(lines, i + 1, columnIndex,
                                 [isNull |-> FALSE, v |-> value], setlistNumber, settings)

\* variant: a skipped line forgets the last value
RECURSIVE scanRows_blankBreaks(_, _, _, _, _, _)
scanRows_blankBreaks(lines, i, columnIndex, lastValue, setlistNumber, settings) ==
    IF i > Len(lines) THEN << >>
    ELSE
    LET line   == trim(lines[i])
        values == mapTrim(split(line, ","))
        value  == IF Len(values) > columnIndex THEN trim(values[columnIndex + 1]) ELSE ""
        blank  == line = "" \/ Len(values) <= columnIndex \/ value = ""
        enc    == classifyRow(value, setlistNumber, settings)
    IN  IF blank
        THEN scanRows_blankBreaks(lines, i + 1, columnIndex, [isNull |-> TRUE, v |-> ""],
                                  setlistNumber, settings)
        ELSE IF ~lastValue.isNull /\ value = lastValue.v
        THEN scanRows_blankBreaks(lines, i + 1, columnIndex, lastValue,
                                  setlistNumber, settings)
        ELSE (IF Len(enc.midi_sequence) > 0 THEN << enc >> ELSE << >>)
             \o scanRows_blankBreaks(lines, i + 1, columnIndex,
                                     [isNull |-> FALSE, v |-> value], setlistNumber, settings)

\* the for loop over lines[1..]: the list tempMappings.  lastValue is
\* [isNull, v], null before the first value is read.
RECURSIVE scanRows(_, _, _, _, _, _)
scanRows(lines, i, columnIndex, lastValue, setlistNumber, settings) ==
    IF i > Len(lines) THEN << >>
    ELSE
    LET line   == trim(lines[i])
        values == mapTrim(split(line, ","))
        value  == IF Len(values) > columnIndex THEN trim(values[columnIndex + 1]) ELSE ""
        skip   == \/ line = ""
                  \/ Len(values) <= columnIndex
                  \/ value = ""
                  \/ (~lastValue.isNull /\ value = lastValue.v)
        enc    == classifyRow(value, setlistNumber, settings)
    IN  IF skip
        THEN scanRows(lines, i + 1, columnIndex, lastValue, setlistNumber, settings)
        ELSE (IF Len(enc.midi_sequence) > 0 THEN << enc >> ELSE << >>)
             \o scanRows(lines, i + 1, columnIndex,
                         [isNull |-> FALSE, v |-> value], setlistNumber, settings)

\* .replace(/[^a-z0-9_]/g, "_")
RECURSIVE replaceNonWord(_)
replaceNonWord(s) ==
    IF Len(s) = 0 THEN ""
    ELSE LET c == CharAt(s, 1) IN
         (IF posIn(LowerLetters, c, 1) > 0 \/ isDigit(c) \/ c = "_" THEN c ELSE "_")
         \o replaceNonWord(SubSeq(s, 2, Len(s)))

\* faulty variant of collapseUnderscores: runs of underscores are kept
collapseUnderscores_keep(s) == s

\* .replace(/_+/g, "_")
RECURSIVE collapseUnderscores(_)
collapseUnderscores(s) ==
    IF Len(s) < 2 THEN s
    ELSE IF CharAt(s, 1) = "_" /\ CharAt(s, 2) = "_"
    THEN collapseUnderscores(SubSeq(s, 2, Len(s)))
    ELSE CharAt(s, 1) \o collapseUnderscores(SubSeq(s, 2, Len(s)))

sanitizeTitle(songTitle) == collapseUnderscores(replaceNonWord(toLowerCase(songTitle)))

\* faulty variant of csvHeaders: the header cells are not trimmed
csvHeaders_untrimmed(csvString) == split(split(trim(csvString), "\n")[1], ",")

\* the header row of the document and the position of the target column
csvHeaders(csvString) == mapTrim(split(split(trim(csvString), "\n")[1], ","))

\* faulty variant of missingColumnError: the rows read so far are returned
missingColumnError_partial(settings, songTitle, headers) ==
    [kind |-> "list",
     mappings |-> << [id |-> 0,
                      osc_address |-> settings.osc_prefix \o "/" \o sanitizeTitle(songTitle) \o "/1",
                      description |-> "QC: Select Scene A",
                      midi_sequence |-> << ControlChange(Channel, 43, 0) >>] >>]

\* the Error thrown when the column is not found
missingColumnError(settings, songTitle, headers) ==
    [kind |-> "throw",
     message |-> "Column '" \o settings.column_name \o "' not found in CSV for '"
                 \o songTitle \o "'. Available columns: " \o join(headers, ", ")]

\* variant: lastValue outlives the call and still holds the value '1A' of
\* the document parsed before
initialLastValue_stale == [isNull |-> FALSE, v |-> "1A"]

\* let lastValue = null: declared inside the function, so every call
\* starts without a value
initialLastValue == [isNull |-> TRUE, v |-> ""]

\* faulty variant of parseSongCsvJs: the address index starts at 0
parseSongCsvJs_zeroBased(csvString, songTitle, setlistNumber, settings, firstId) ==
    LET lines       == split(trim(csvString), "\n")
        headers     == csvHeaders(csvString)
        columnIndex == indexOf(headers, settings.column_name)
        tempMappings == scanRows(lines, 2, columnIndex, initialLastValue,
                                 setlistNumber, settings)
        sanitizedTitle == sanitizeTitle(songTitle)
    IN  IF columnIndex = -1
        THEN missingColumnError(settings, songTitle, headers)
        ELSE [kind |-> "list",
              mappings |->
                [i \in 1..Len(tempMappings) |->
                    [id |-> firstId + i - 1,
                     osc_address |-> settings.osc_prefix \o "/" \o sanitizedTitle
                                     \o "/" \o numToString(i - 1),
                     description |-> tempMappings[i].description,
                     midi_sequence |-> tempMappings[i].midi_sequence]]]

\* parseSongCsvJs: the generated mappings, ids firstId, firstId+1, ...
\* standing for the fresh random UUIDs, or the Error thrown
parseSongCsvJs(csvString, songTitle, setlistNumber, settings, firstId) ==
    LET lines       == split(trim(csvString), "\n")
        headers     == csvHeaders(csvString)
        columnIndex == indexOf(headers, settings.column_name)
        tempMappings == scanRows(lines, 2, columnIndex, initialLastValue,
                                 setlistNumber, settings)
        sanitizedTitle == sanitizeTitle(songTitle)
    IN  IF columnIndex = -1
        THEN missingColumnError(settings, songTitle, headers)
        ELSE [kind |-> "list",
              mappings |->
                [i \in 1..Len(tempMappings) |->
                    [id |-> firstId + i - 1,
                     osc_address |-> settings.osc_prefix \o "/" \o sanitizedTitle
                                     \o "/" \o numToString(i),
                     description |-> tempMappings[i].description,
                     midi_sequence |-> tempMappings[i].midi_sequence]]]

\* the messages parseSongCsvJs hands to onWarning: the callback is called
\* only from the catch of the try block around the row's encoding, and no
\* statement of that block (startsWith, replace, trim, toUpperCase, match,
\* parseInt, charCodeAt, push) throws for a string value, so no row ever
\* reaches it
parseWarnings(csvString, songTitle, settings) == << >>

(***************************************************************************)
(* State                                                                   *)
(***************************************************************************)

VARIABLES
    params,     \* what the operator wants to encode (numbers as numbers)
    stored,     \* a mapping of the loaded configuration, offered for edit
    form,       \* the mapping form of the page
    phase,      \* idle, filled, encoded, opened, resubmitted
    encoder,    \* the encoder copy that produced result
    result,     \* what the last encode yielded
    opened,     \* none, ok, throw: how the last edit click ended
    decoder,    \* the page whose edit flow opened the mapping
    csvFiles,             \* the files of #csv-files, each [name, text, cells]
    columnInput,          \* the value of #parser-column-name
    startSetlistInput,    \* the value of #start-setlist-number
    generatedMappings,    \* the output list of the generator page
    csvErrorMessage,      \* [hidden, text] of #csv-error-message
    alerted,              \* the alert the last handler showed, "" when none
    csvPhase,             \* idle, running, done, aborted: the click handler
    files,                \* the handler's files
    fileIdx,              \* the position of its for loop, from 1
    parserSettings,       \* its parserSettings
    currentSetlistNumber, \* its currentSetlistNumber
    newMappingsFromCsv,   \* its newMappingsFromCsv
    parsed,               \* what each parseSongCsvJs call of the run returned or threw
    nextId,               \* the ids drawn so far, plus one
    rounds,               \* how many runs of the click handler were started
    submits,              \* how many manual mappings were added
    calls,                \* the parseSongCsvJs calls made so far: arguments and outcome
    commandRows,          \* the .osc-command-row inputs of the dialog: [address, args]
    mappingData,          \* what the last submit of an OSC-to-OSC mapping built
    page,                 \* the page that is open: app, client, frontend
    serverConfig,         \* the configuration the store holds
    currentConfig,        \* the page's copy of it (currentConfig, allMappings)
    editingMappingId,     \* "" for null
    isEditMode,           \* client.js only
    dialogOpen,           \* whether the mapping dialog is shown
    openedAs,             \* how the dialog was last opened: "add" or the id edited
    selectedMappingIds,   \* the Set of the app page
    pending,              \* the requests in flight, each with what awaits it
    requestLog,           \* every mapping, config and restart request sent, in order
    ops,                  \* how many clicks were made
    discoveredDevices,    \* the Map of the fleet server, as the list of its keys
    syncDevices,          \* the devices of the running /api/sync handler
    syncTasks,            \* per device of the handler: where its async callback stands
    syncSent,             \* the requests the handler has sent, in order
    syncReply             \* what /api/sync answered

codecVars == <<params, stored, form, phase, encoder, result, opened, decoder>>

ingestVars ==
    <<csvFiles, columnInput, startSetlistInput, generatedMappings, csvErrorMessage,
      alerted, csvPhase, files, fileIdx, parserSettings, currentSetlistNumber,
      newMappingsFromCsv, parsed, nextId, rounds, submits>>

parserVars == <<calls>>

oscVars == <<commandRows, mappingData>>

appVars ==
    <<page, serverConfig, currentConfig, editingMappingId, isEditMode, dialogOpen,
      openedAs, selectedMappingIds, pending, requestLog, ops>>

syncVars == <<discoveredDevices, syncDevices, syncTasks, syncSent, syncReply>>

vars == <<codecVars, ingestVars, parserVars, oscVars, appVars, syncVars>>

(***************************************************************************)
(* Inputs of the codec                                                     *)
(***************************************************************************)

\* how far outside a number input's min..max the operator's entries go
InputMargin == 1

\* the longest stored midi_sequence offered for edit
MaxSeqLen == 3

SetlistInputs == ((SetlistMin - InputMargin)..(SetlistMax + InputMargin)) \cup {NaN}

PatchNumberInputs ==
    ((PatchNumberMin - InputMargin)..(PatchNumberMax + InputMargin)) \cup {NaN}

NoParams ==
    [category |-> "none", address |-> "", setlist |-> 0, number |-> 0,
     letter |-> 0, action |-> ""]

PatchParams ==
    [category : {"patch"}, address : {"/s"}, setlist : SetlistInputs,
     number : PatchNumberInputs, letter : 0..7, action : {""}]

OtherParams ==
    [category : {"scene", "footswitch"}, address : {"", "/s"}, setlist : {0},
     number : {0}, letter : 0..7, action : {""}]
    \cup [category : {"mode_view"}, address : {"", "/s"}, setlist : {0},
          number : {0}, letter : {0}, action : ModeViewOptions]
    \cup [category : {"looper"}, address : {"", "/s"}, setlist : {0},
          number : {0}, letter : {0}, action : LooperOptions]
    \cup [category : {""}, address : {"", "/s"}, setlist : {0},
          number : {0}, letter : {0}, action : {""}]

EncodeParams == PatchParams \cup OtherParams

\* what the operator types into a number input for n: nothing for NaN
typed(n) == IF n = NaN THEN "" ELSE numToString(n)

\* events a stored configuration may hold
EventSamples ==
    {ControlChange(Channel, c, v) : c \in {0, 5, 32, 35, 43, 47, 48}, v \in {0, 127}}
    \cup {ProgramChange(Channel, 5)}

SeqSamples == UNION {[1..n -> EventSamples] : n \in 0..MaxSeqLen}

NoMapping == [id |-> "none"]

\* mappings of a stored configuration: OSC-to-MIDI ones without and with a
\* mapping_type, and an OSC-to-OSC one, which has no midi_sequence
StoredSamples ==
    {[id |-> "m1", osc_address |-> "/s", description |-> "d", midi_sequence |-> q] :
        q \in SeqSamples}
    \cup {[id |-> "m2", osc_address |-> "/s", description |-> "d",
           mapping_type |-> "midi", midi_sequence |-> << ControlChange(Channel, 43, 0) >>],
          [id |-> "m3", osc_address |-> "/s", description |-> "OSC Relay",
           mapping_type |-> "osc", osc_sequence |-> << [address |-> "/cue/1/start"] >>]}

\* the settings the generator page starts with
DefaultSettings ==
    [column_name |-> "Song Part", footswitch_prefix |-> "FS",
     scene_prefix |-> "SC", osc_prefix |-> "/song"]

\* the one-row document an operator writes for params
rowDocument(p) ==
    "Time,Song Part\n0:00,"
    \o (CASE p.category = "patch" -> typed(p.number) \o fromCharCode(65 + p.letter)
          [] p.category = "scene" -> "SC " \o fromCharCode(65 + p.letter)
          [] p.category = "footswitch" -> "FS" \o fromCharCode(65 + p.letter)
          [] OTHER -> "")

(***************************************************************************)
(* Actions of the codec                                                    *)
(***************************************************************************)

\* the generator page as it is after DOMContentLoaded, nothing chosen
IngestIdle ==
    /\ csvFiles = << >>
    /\ columnInput = DefaultSettings.column_name
    /\ startSetlistInput = "1"
    /\ generatedMappings = << >>
    /\ csvErrorMessage = [hidden |-> TRUE, text |-> ""]
    /\ alerted = ""
    /\ csvPhase = "idle"
    /\ files = << >>
    /\ fileIdx = 0
    /\ parserSettings = DefaultSettings
    /\ currentSetlistNumber = 0
    /\ newMappingsFromCsv = << >>
    /\ parsed = << >>
    /\ nextId = 1
    /\ rounds = 0
    /\ submits = 0

\* no parseSongCsvJs call was made
ParserIdle == calls = << >>

\* the dialog holds no OSC command row and nothing was submitted
OscIdle ==
    /\ commandRows = << >>
    /\ mappingData = ResultNone

\* no page of the configuration is open
AppIdle ==
    /\ page = "none"
    /\ serverConfig = [midi_input_name |-> "", osc_mappings |-> {}]
    /\ currentConfig = [midi_input_name |-> "", osc_mappings |-> {}]
    /\ editingMappingId = ""
    /\ isEditMode = FALSE
    /\ dialogOpen = FALSE
    /\ openedAs = "none"
    /\ selectedMappingIds = {}
    /\ pending = << >>
    /\ requestLog = << >>
    /\ ops = 0

\* the fleet server has discovered nothing and serves no request
SyncIdle ==
    /\ discoveredDevices = << >>
    /\ syncDevices = << >>
    /\ syncTasks = << >>
    /\ syncSent = << >>
    /\ syncReply = ResultNone

InitCodec ==
    /\ \/ params \in EncodeParams /\ stored = NoMapping
       \/ params = NoParams /\ stored \in StoredSamples
    /\ form = FormDefault
    /\ phase = "idle"
    /\ encoder = "none"
    /\ result = ResultNone
    /\ opened = "none"
    /\ decoder = "none"
    /\ IngestIdle
    /\ ParserIdle
    /\ OscIdle
    /\ AppIdle
    /\ SyncIdle

\* the operator fills the form for params: the address, the category and the
\* controls of that category
FillForm ==
    /\ phase = "idle"
    /\ params # NoParams
    /\ form' = [form EXCEPT
            !.osc_address = params.address,
            !.category = params.category,
            !.patch_setlist =
                IF params.category = "patch" THEN typed(params.setlist) ELSE @,
            !.patch_number =
                IF params.category = "patch" THEN typed(params.number) ELSE @,
            !.patch_letter =
                IF params.category = "patch" THEN numToString(params.letter) ELSE @,
            !.scene_select =
                IF params.category = "scene" THEN numToString(params.letter) ELSE @,
            !.footswitch_select =
                IF params.category = "footswitch"
                THEN numToString(35 + params.letter) ELSE @,
            !.mode_view_select =
                IF params.category = "mode_view" THEN params.action ELSE @,
            !.looper_select =
                IF params.category = "looper" THEN params.action ELSE @]
    /\ phase' = "filled"
    /\ UNCHANGED <<params, stored, encoder, result, opened, decoder>>
    /\ UNCHANGED ingestVars
    /\ UNCHANGED <<parserVars, oscVars, appVars, syncVars>>

\* what a click on the submit button of form f yields when its handler's
\* encoder yields r: the submit event fires only when the form passes
\* constraint validation
submitWith(f, r) == IF constraintValid(f) THEN r ELSE ResultBlocked

\* submit of the client page's dialog (create)
SubmitApp ==
    /\ phase = "filled"
    /\ result' = submitWith(form, generateMappingFromForm(form))
    /\ encoder' = "app"
    /\ phase' = "encoded"
    /\ UNCHANGED <<params, stored, form, opened, decoder>>
    /\ UNCHANGED ingestVars
    /\ UNCHANGED <<parserVars, oscVars, appVars, syncVars>>

\* submit of the first client page's dialog
SubmitFrontend ==
    /\ phase = "filled"
    /\ result' = submitWith(form, generateMappingFromForm_frontend(form))
    /\ encoder' = "frontend"
    /\ phase' = "encoded"
    /\ UNCHANGED <<params, stored, form, opened, decoder>>
    /\ UNCHANGED ingestVars
    /\ UNCHANGED <<parserVars, oscVars, appVars, syncVars>>

\* submit of the generator page's manual form
SubmitGenerator ==
    /\ phase = "filled"
    /\ result' = submitWith(form, generateMappingFromForm_generator(form, 1))
    /\ encoder' = "generator"
    /\ phase' = "encoded"
    /\ UNCHANGED <<params, stored, form, opened, decoder>>
    /\ UNCHANGED ingestVars
    /\ UNCHANGED <<parserVars, oscVars, appVars, syncVars>>

\* submit of the dialog of templates/client.js
SubmitClient ==
    /\ phase = "filled"
    /\ result' = submitWith(form, handleMappingFormSubmit(form))
    /\ encoder' = "client"
    /\ phase' = "encoded"
    /\ UNCHANGED <<params, stored, form, opened, decoder>>
    /\ UNCHANGED ingestVars
    /\ UNCHANGED <<parserVars, oscVars, appVars, syncVars>>

\* the generator page ingests the one-row document written for params
IngestRow ==
    /\ phase = "idle"
    /\ params.category \in {"patch", "scene", "footswitch"}
    /\ params.address # ""
    /\ result' = parseSongCsvJs(rowDocument(params), "Song",
                                jsSub(parseInt(typed(params.setlist)), 1),
                                DefaultSettings, 1)
    /\ encoder' = "csv"
    /\ phase' = "encoded"
    /\ UNCHANGED <<params, stored, form, opened, decoder>>
    /\ UNCHANGED ingestVars
    /\ UNCHANGED <<parserVars, oscVars, appVars, syncVars>>

\* the mapping a result holds, once stored in the configuration
hasMapping(r) ==
    \/ r.kind = "mapping"
    \/ r.kind = "list" /\ Len(r.mappings) > 0

mappingOf(r) == IF r.kind = "list" THEN r.mappings[1] ELSE r

\* Edit is clicked in the client page on the mapping just produced
OpenForEdit ==
    /\ phase = "encoded"
    /\ hasMapping(result)
    /\ LET r == populateFormForEdit(mappingOf(result)) IN
        /\ opened' = (IF r.kind = "throw" THEN "throw" ELSE "ok")
        /\ form' = (IF r.kind = "throw" THEN form ELSE r.form)
    /\ decoder' = "app"
    /\ phase' = "opened"
    /\ UNCHANGED <<params, stored, encoder, result>>
    /\ UNCHANGED ingestVars
    /\ UNCHANGED <<parserVars, oscVars, appVars, syncVars>>

\* Edit is clicked in templates/client.js on the mapping just produced
OpenForEditClient ==
    /\ phase = "encoded"
    /\ hasMapping(result)
    /\ form' = editMapping(mappingOf(result), form).form
    /\ opened' = "ok"
    /\ decoder' = "client"
    /\ phase' = "opened"
    /\ UNCHANGED <<params, stored, encoder, result>>
    /\ UNCHANGED ingestVars
    /\ UNCHANGED <<parserVars, oscVars, appVars, syncVars>>

\* Edit is clicked in the client page on a mapping of the configuration
OpenStored ==
    /\ phase = "idle"
    /\ stored # NoMapping
    /\ LET r == populateFormForEdit(stored) IN
        /\ opened' = (IF r.kind = "throw" THEN "throw" ELSE "ok")
        /\ form' = (IF r.kind = "throw" THEN form ELSE r.form)
    /\ decoder' = "app"
    /\ phase' = "opened"
    /\ UNCHANGED <<params, stored, encoder, result>>
    /\ UNCHANGED ingestVars
    /\ UNCHANGED <<parserVars, oscVars, appVars, syncVars>>

\* Edit is clicked in templates/client.js on a mapping of the configuration
OpenStoredClient ==
    /\ phase = "idle"
    /\ stored # NoMapping
    /\ form' = editMapping(stored, form).form
    /\ opened' = "ok"
    /\ decoder' = "client"
    /\ phase' = "opened"
    /\ UNCHANGED <<params, stored, encoder, result>>
    /\ UNCHANGED ingestVars
    /\ UNCHANGED <<parserVars, oscVars, appVars, syncVars>>

\* the operator submits the edit dialog of the client page as it was filled
\* by the decoder (update)
Resubmit ==
    /\ phase = "opened"
    /\ opened = "ok"
    /\ decoder = "app"
    /\ stored # NoMapping
    /\ result' = submitWith(form, generateMappingFromForm(form))
    /\ encoder' = "app"
    /\ phase' = "resubmitted"
    /\ UNCHANGED <<params, stored, form, opened, decoder>>
    /\ UNCHANGED ingestVars
    /\ UNCHANGED <<parserVars, oscVars, appVars, syncVars>>

NextCodec ==
    \/ FillForm
    \/ SubmitApp
    \/ SubmitFrontend
    \/ SubmitGenerator
    \/ SubmitClient
    \/ IngestRow
    \/ OpenForEdit
    \/ OpenForEditClient
    \/ OpenStored
    \/ OpenStoredClient
    \/ Resubmit

SpecCodec == InitCodec /\ [][NextCodec]_vars

(***************************************************************************)
(* The CSV importer of the generator page                                  *)
(***************************************************************************)

\* the most files chosen at once
MaxFiles == 3

\* the most runs of the click handler
MaxRounds == 1

\* the most manual mappings added
MaxManual == 1

\* a document written from its header cells and its rows: every cell of the
\* header padded with pad, the lines joined with eol
padCells(cells, pad) == [i \in 1..Len(cells) |-> pad \o cells[i] \o pad]

document(cells, pad, eol, rows) == join(<< join(padCells(cells, pad), ",") >> \o rows, eol)

songFile(name, cells, pad, eol, rows) ==
    [name |-> name, cells |-> cells, text |-> document(cells, pad, eol, rows)]

\* the files an operator may choose; cells are the header cells the
\* document was written from
SongFiles ==
    { songFile("Intro.csv", << "Time", "Song Part" >>, "", "\n",
               << "0,FS A", "1,SC B", "2,1A" >>),
      songFile("Big Song.CSV", << "Song Part", "Notes" >>, " ", "\r\n",
               << "2B,x", "2B,y", "FS C,", "" >>),
      songFile("notes.csv", << "Time", "Notes" >>, "", "\n", << "0,3C" >>),
      songFile("empty.csv", << "" >>, "", "\n", << >>),
      songFile("Outro.csv", << "song part", "Song Parts" >>, "", "\n", << "9H,9H" >>),
      songFile("blank.csv", << "Song Part" >>, "\t", "\n", << "" >>) }

Batches == UNION {[1..n -> SongFiles] : n \in 0..MaxFiles}

\* what the operator may type as the column name and the first setlist
ColumnInputs == {"Song Part", " Notes ", " "}

StartInputs == {"1", "2"}

\* file.name.replace(/\.csv$/i, "")
stripCsvExt(name) ==
    IF Len(name) >= 4 /\ toLowerCase(SubSeq(name, Len(name) - 3, Len(name))) = ".csv"
    THEN SubSeq(name, 1, Len(name) - 4)
    ELSE name

\* the manual form filled for a scene, and with no category chosen
ManualForms ==
    {[FormDefault EXCEPT !.osc_address = "/m", !.category = c] : c \in {"scene", ""}}

InitIngest ==
    /\ params = NoParams
    /\ stored = NoMapping
    /\ form = FormDefault
    /\ phase = "idle"
    /\ encoder = "none"
    /\ result = ResultNone
    /\ opened = "none"
    /\ decoder = "none"
    /\ IngestIdle
    /\ ParserIdle
    /\ OscIdle
    /\ AppIdle
    /\ SyncIdle

\* the operator edits the parser settings
TypeSettings ==
    /\ csvPhase = "idle"
    /\ columnInput' \in ColumnInputs
    /\ startSetlistInput' \in StartInputs
    /\ <<columnInput', startSetlistInput'>> # <<columnInput, startSetlistInput>>
    /\ alerted' = ""
    /\ UNCHANGED <<csvFiles, generatedMappings, csvErrorMessage, csvPhase,
                   files, fileIdx, parserSettings, currentSetlistNumber,
                   newMappingsFromCsv, parsed, nextId, rounds, submits>>
    /\ UNCHANGED codecVars
    /\ UNCHANGED <<parserVars, oscVars, appVars, syncVars>>

\* change of #csv-files-input: the operator chose files for the empty input
SelectFiles ==
    /\ csvPhase = "idle"
    /\ csvFiles = << >>
    /\ csvFiles' \in Batches \ {<< >>}
    /\ csvErrorMessage' = [csvErrorMessage EXCEPT !.hidden = TRUE]
    /\ alerted' = ""
    /\ UNCHANGED <<columnInput, startSetlistInput, generatedMappings, csvPhase,
                   files, fileIdx, parserSettings, currentSetlistNumber,
                   newMappingsFromCsv, parsed, nextId, rounds, submits>>
    /\ UNCHANGED codecVars
    /\ UNCHANGED <<parserVars, oscVars, appVars, syncVars>>

\* click on #process-csv-btn, up to the first await: the two early returns,
\* or the start of a run
ProcessCsvClick ==
    /\ csvPhase # "running"
    /\ IF Len(csvFiles) = 0
       THEN /\ alerted' = "Please select one or more CSV files."
            /\ UNCHANGED <<csvErrorMessage, csvPhase, files, fileIdx, parserSettings,
                           currentSetlistNumber, newMappingsFromCsv, parsed, rounds>>
       ELSE IF trim(columnInput) = ""
       THEN /\ alerted' = "Please fill in all parser settings."
            /\ UNCHANGED <<csvErrorMessage, csvPhase, files, fileIdx, parserSettings,
                           currentSetlistNumber, newMappingsFromCsv, parsed, rounds>>
       ELSE /\ rounds < MaxRounds
            /\ rounds' = rounds + 1
            /\ parserSettings' = [DefaultSettings EXCEPT !.column_name = trim(columnInput)]
            /\ currentSetlistNumber' = jsSub(parseInt(startSetlistInput), 1)
            /\ csvErrorMessage' = [csvErrorMessage EXCEPT !.hidden = TRUE]
            /\ newMappingsFromCsv' = << >>
            /\ files' = csvFiles
            /\ fileIdx' = 1
            /\ parsed' = << >>
            /\ csvPhase' = "running"
            /\ alerted' = ""
    /\ UNCHANGED <<csvFiles, columnInput, startSetlistInput, generatedMappings,
                   nextId, submits>>
    /\ UNCHANGED codecVars
    /\ UNCHANGED <<parserVars, oscVars, appVars, syncVars>>

\* one turn of the for loop: the file is read and parsed.  A parse that
\* returns goes on to the next file, and after the last file to the end of
\* the handler; a parse that throws goes to the catch, which returns.
ProcessFile ==
    /\ csvPhase = "running"
    /\ LET file      == files[fileIdx]
           songTitle == stripCsvExt(file.name)
           r         == parseSongCsvJs(file.text, songTitle, currentSetlistNumber,
                                       parserSettings, nextId)
       IN  /\ parsed' = Append(parsed, r)
           /\ IF r.kind = "list"
              THEN /\ newMappingsFromCsv' = newMappingsFromCsv \o r.mappings
                   /\ currentSetlistNumber' = jsAdd(currentSetlistNumber, 1)
                   /\ nextId' = nextId + Len(r.mappings)
                   /\ fileIdx' = fileIdx + 1
                   /\ IF fileIdx < Len(files)
                      THEN /\ alerted' = ""
                           /\ UNCHANGED <<generatedMappings, csvFiles, csvPhase>>
                      ELSE /\ generatedMappings' = generatedMappings \o newMappingsFromCsv'
                           /\ alerted' = "Successfully processed "
                                         \o numToString(Len(files)) \o " CSVs and added "
                                         \o numToString(Len(newMappingsFromCsv'))
                                         \o " mappings."
                           /\ csvFiles' = << >>
                           /\ csvPhase' = "done"
                   /\ UNCHANGED csvErrorMessage
              ELSE /\ csvErrorMessage' =
                        [hidden |-> FALSE,
                         text |-> "Error parsing " \o file.name \o ": " \o r.message]
                   /\ csvPhase' = "aborted"
                   /\ alerted' = ""
                   /\ UNCHANGED <<newMappingsFromCsv, currentSetlistNumber, nextId, fileIdx,
                                  generatedMappings, csvFiles>>
    /\ UNCHANGED <<columnInput, startSetlistInput, files, parserSettings, rounds, submits>>
    /\ UNCHANGED codecVars
    /\ UNCHANGED <<parserVars, oscVars, appVars, syncVars>>

\* submit of the manual form, before the run of the importer
ManualSubmit ==
    /\ csvPhase = "idle"
    /\ submits < MaxManual
    /\ \E f \in ManualForms :
         LET newMapping == submitWith(f, generateMappingFromForm_generator(f, nextId))
         IN  IF newMapping.kind = "mapping"
             THEN /\ generatedMappings' = Append(generatedMappings, newMapping)
                  /\ nextId' = nextId + 1
                  /\ submits' = submits + 1
                  /\ alerted' = ""
             ELSE /\ alerted' = "Please fill out all required fields for the manual mapping."
                  /\ UNCHANGED <<generatedMappings, nextId, submits>>
    /\ UNCHANGED <<csvFiles, columnInput, startSetlistInput, csvErrorMessage, csvPhase,
                   files, fileIdx, parserSettings, currentSetlistNumber,
                   newMappingsFromCsv, parsed, rounds>>
    /\ UNCHANGED codecVars
    /\ UNCHANGED <<parserVars, oscVars, appVars, syncVars>>

\* click on #clear-all-btn before the run, confirmed; the button is disabled on
\* an empty list
ClearAll ==
    /\ csvPhase = "idle"
    /\ Len(generatedMappings) > 0
    /\ generatedMappings' = << >>
    /\ alerted' = ""
    /\ UNCHANGED <<csvFiles, columnInput, startSetlistInput, csvErrorMessage,
                   csvPhase, files, fileIdx, parserSettings, currentSetlistNumber,
                   newMappingsFromCsv, parsed, nextId, rounds, submits>>
    /\ UNCHANGED codecVars
    /\ UNCHANGED <<parserVars, oscVars, appVars, syncVars>>

NextIngest ==
    \/ TypeSettings
    \/ SelectFiles
    \/ ProcessCsvClick
    \/ ProcessFile
    \/ ManualSubmit
    \/ ClearAll

SpecIngest == InitIngest /\ [][NextIngest]_vars

(***************************************************************************)
(* Calls of parseSongCsvJs                                                 *)
(***************************************************************************)

\* the most calls made
MaxCalls == 2

\* the most runs of equal values in a document, and the length of a long run
MaxRuns == 3

MaxRepeat == 5

\* the most rows of a document written from single values
MaxShortRows == 2

MaxGapLines == 3

\* the mapping form, untouched
CodecIdle ==
    /\ params = NoParams
    /\ stored = NoMapping
    /\ form = FormDefault
    /\ phase = "idle"
    /\ encoder = "none"
    /\ result = ResultNone
    /\ opened = "none"
    /\ decoder = "none"

\* target-column values that come in runs
RunValues == {"1A", "FS A", "Intro", "Verse"}

\* target-column values of every shape the row encoder tells apart
RowValues ==
    {"1A", "1a", "A1", "12b", "0A", "33C", "1Z", "Bridge 2", "Verse 2", "7",
     "FS A", "FSa", "FS  h", "FS Z", "FS 1A", "FS AB", "FS", "fs c",
     "SC B", "SC 2B", "SC I", "SCFS A", ""}

\* n copies of v
repeated(v, n) == [i \in 1..n |-> v]

RECURSIVE expandRuns(_)
expandRuns(runs) ==
    IF Len(runs) = 0 THEN << >>
    ELSE repeated(runs[1].value, runs[1].count) \o expandRuns(Tail(runs))

Runs == [value : RunValues, count : {1, MaxRepeat}]

\* the target-column values of the documents: runs of values, and short
\* lists of single values
RunRows == {expandRuns(q) : q \in UNION {[1..n -> Runs] : n \in 0..MaxRuns}}

ShortRows == UNION {[1..n -> RowValues] : n \in 0..MaxShortRows}

\* the document whose target column holds rows, one row a line
rowsDocument(rows) ==
    join(<< "Time,Song Part" >> \o [i \in 1..Len(rows) |-> numToString(i) \o "," \o rows[i]],
         "\n")

Titles == {"Song", "My Song! #1", "A__b--C", "__x__", "UPPER_9.v2", ""}

SetlistIndexes == {0, 12}

\* lines of a document with the value they hold in the target column: two
\* values, a value that encodes to nothing, an empty line, a line of white
\* space, an empty and a blank target cell, and a row without the column
GapLines ==
    {[line |-> "1,1A", value |-> "1A"],
     [line |-> " 2 , FS A ", value |-> "FS A"],
     [line |-> "3,junk", value |-> "junk"],
     [line |-> "", value |-> ""],
     [line |-> "  ", value |-> ""],
     [line |-> "4,", value |-> ""],
     [line |-> "5, ", value |-> ""],
     [line |-> "6", value |-> ""]}

\* the document with these lines under the header
linesDocument(ls) ==
    join(<< "Time,Song Part" >> \o [i \in 1..Len(ls) |-> ls[i].line], "\n")

GapDocuments == UNION {[1..n -> GapLines] : n \in 1..MaxGapLines}

\* a call's arguments: the document, and the values of its target column
callInput(rows, doc, title, setlistNumber) ==
    [rows |-> rows, doc |-> doc, title |-> title, setlistNumber |-> setlistNumber]

\* the arguments of a first call, and of a call that follows another
FirstInputs ==
    {callInput(r, rowsDocument(r), "Song", 0) : r \in RunRows \cup ShortRows}
    \cup {callInput(<< "1A", "1A", "FS A" >>, rowsDocument(<< "1A", "1A", "FS A" >>), t, n) :
            t \in Titles, n \in SetlistIndexes}
    \cup {callInput(<< v >>, rowsDocument(<< v >>), "Song", n) :
            v \in RowValues, n \in SetlistIndexes}
    \cup {callInput([i \in 1..Len(ls) |-> ls[i].value], linesDocument(ls), "Song", 0) :
            ls \in GapDocuments}

NextInputs ==
    {callInput(r, rowsDocument(r), t, 0) :
        r \in {<< >>} \cup {<< v >> : v \in RunValues}, t \in {"Song", "Other"}}

\* the ids drawn by the calls made so far, plus one
freeId ==
    IF Len(calls) = 0 THEN 1
    ELSE 1 + Len(calls[1].out.mappings)

InitParse ==
    /\ CodecIdle
    /\ IngestIdle
    /\ ParserIdle
    /\ OscIdle
    /\ AppIdle
    /\ SyncIdle

\* one call of parseSongCsvJs with the default settings
ParseSong ==
    /\ Len(calls) < MaxCalls
    /\ \E in \in (IF Len(calls) = 0 THEN FirstInputs ELSE NextInputs) :
         calls' = Append(calls,
            in @@ [out |-> parseSongCsvJs(in.doc, in.title, in.setlistNumber,
                                          DefaultSettings, freeId),
                   warnings |-> parseWarnings(in.doc, in.title, DefaultSettings)])
    /\ UNCHANGED <<codecVars, ingestVars, oscVars, appVars, syncVars>>

NextParse == ParseSong

SpecParse == InitParse /\ [][NextParse]_vars

(***************************************************************************)
(* The OSC-to-OSC branch of handleMappingFormSubmit (client.js)            *)
(***************************************************************************)

MaxCommandRows == 2

\* String.prototype.split(/\s+/): the pieces between the runs of white
\* space, from position i on, cur being the piece read so far
RECURSIVE splitWhitespace(_, _, _)
splitWhitespace(s, i, cur) ==
    IF i > Len(s) THEN << cur >>
    ELSE IF isSpace(CharAt(s, i))
         THEN IF i > 1 /\ isSpace(CharAt(s, i - 1))
              THEN splitWhitespace(s, i + 1, cur)
              ELSE << cur >> \o splitWhitespace(s, i + 1, "")
         ELSE splitWhitespace(s, i + 1, cur \o CharAt(s, i))

\* parseFloat(s): the longest prefix of s, after leading white space, that is
\* a decimal literal (sign, digits, fraction, exponent) or a signed Infinity;
\* the number is kept as that prefix, and the result is NaN when there is none
parseFloat(s) ==
    LET t      == trimStart(s)
        at(x, i) == IF i >= 1 /\ i <= Len(x) THEN CharAt(x, i) ELSE ""
        sign   == IF at(t, 1) \in {"-", "+"} THEN at(t, 1) ELSE ""
        u      == SubSeq(t, Len(sign) + 1, Len(t))
        int    == digitRun(u, 1)
        hasDot == at(u, Len(int) + 1) = "."
        frac   == IF hasDot THEN digitRun(u, Len(int) + 2) ELSE ""
        mant   == IF int = "" /\ frac = "" THEN ""
                  ELSE int \o (IF hasDot THEN "." \o frac ELSE "")
        p      == Len(mant) + 1
        hasE   == at(u, p) \in {"e", "E"}
        esign  == IF at(u, p + 1) \in {"-", "+"} THEN at(u, p + 1) ELSE ""
        edigs  == digitRun(u, p + 1 + Len(esign))
        exp    == IF hasE /\ edigs # "" THEN at(u, p) \o esign \o edigs ELSE ""
    IN  IF startsWith(u, "Infinity") THEN [isNaN |-> FALSE, lexeme |-> sign \o "Infinity"]
        ELSE IF mant = "" THEN [isNaN |-> TRUE, lexeme |-> ""]
        ELSE [isNaN |-> FALSE, lexeme |-> sign \o mant \o exp]

\* arg => { const num = parseFloat(arg); return isNaN(num) ? arg : num; }
parseArg(arg) ==
    LET num == parseFloat(arg)
    IN  IF num.isNaN THEN [type |-> "string", text |-> arg]
        ELSE [type |-> "number", text |-> num.lexeme]

\* the forEach over the command rows: a command for every row with an
\* address, with args when the arguments field is not blank
RECURSIVE oscCommandsOf(_)
oscCommandsOf(rows) ==
    IF Len(rows) = 0 THEN << >>
    ELSE LET address == trim(rows[1].address)
             argsStr == trim(rows[1].args)
             tokens  == splitWhitespace(argsStr, 1, "")
             command == IF argsStr # ""
                        THEN [address |-> address,
                              args |-> [j \in 1..Len(tokens) |-> parseArg(tokens[j])]]
                        ELSE [address |-> address]
         IN  (IF address # "" THEN << command >> ELSE << >>)
             \o oscCommandsOf(Tail(rows))

\* what the operator may have typed into the rows of the dialog
CommandRowSets ==
    LET Addresses == {"", "/cue", " /go "}
        ArgTexts  == {"", "1", "1.5 x", "12abc", "-3 go", "  7\t 8  ", ".5 1e2",
                      "1st 2nd", "abc", "Infinity -", "0x1F", "5. 1e+"}
    IN  UNION {[1..n -> [address : Addresses, args : ArgTexts]] : n \in 1..MaxCommandRows}

InitOsc == CodecIdle /\ IngestIdle /\ ParserIdle /\ OscIdle /\ AppIdle /\ SyncIdle

\* click on the add button: resetMappingForm leaves a single empty row
OpenDialog ==
    /\ commandRows = << >>
    /\ commandRows' = << [address |-> "", args |-> ""] >>
    /\ mappingData' = ResultNone
    /\ UNCHANGED <<codecVars, ingestVars, parserVars, appVars, syncVars>>

\* the operator adds rows and fills them, nothing being in flight
TypeCommands ==
    /\ commandRows # << >>
    /\ mappingData.kind \in {"none", "alert"}
    /\ \E rows \in CommandRowSets : commandRows' = rows
    /\ mappingData' = ResultNone
    /\ UNCHANGED <<codecVars, ingestVars, parserVars, appVars, syncVars>>

\* submit of the dialog with the mapping type 'osc': the request body that
\* is handed to fetch, or the alert when no row has an address
SubmitOsc ==
    /\ commandRows # << >>
    /\ mappingData.kind \in {"none", "alert"}
    /\ \E oscAddress \in {"/relay"}, oscDescription \in {"", "Cue"} :
         LET description == IF oscDescription # "" THEN oscDescription ELSE "OSC Relay"
             oscCommands == oscCommandsOf(commandRows)
         IN  IF Len(oscCommands) = 0
             THEN mappingData' = [kind |-> "alert",
                                  text |-> "Please add at least one OSC command."]
             ELSE mappingData' = [kind |-> "request",
                                  osc_address |-> oscAddress,
                                  mapping_type |-> "osc",
                                  description |-> description,
                                  osc_sequence |-> oscCommands]
    /\ UNCHANGED commandRows
    /\ UNCHANGED <<codecVars, ingestVars, parserVars, appVars, syncVars>>

\* the request settles: saved, and the dialog closes; or failed, and the
\* dialog stays as it was after the alert
SaveSettled ==
    /\ mappingData.kind = "request"
    /\ \/ /\ commandRows' = << >>
          /\ mappingData' = ResultNone
       \/ /\ mappingData' = [kind |-> "alert", text |-> "Error saving mapping"]
          /\ UNCHANGED commandRows
    /\ UNCHANGED <<codecVars, ingestVars, parserVars, appVars, syncVars>>

NextOsc ==
    \/ OpenDialog
    \/ TypeCommands
    \/ SubmitOsc
    \/ SaveSettled

SpecOsc == InitOsc /\ [][NextOsc]_vars

(***************************************************************************)
(* The fleet server: discovery and POST /api/sync (part_003, part_004)     *)
(***************************************************************************)

MaxDevices == 2

Devices == {"d1", "d2", "d3"}

\* the bodies a client may post
SyncBodies ==
    {[rtp_ip |-> "10.0.0.9", rtp_port |-> 5004],
     [rtp_ip |-> "", rtp_port |-> 5004],
     [rtp_port |-> 5004],
     [rtp_ip |-> "10.0.0.9", rtp_port |-> 0],
     [rtp_ip |-> "10.0.0.9"]}

\* how a fetch may settle: an OK response, an OK response whose body is no
\* JSON, a response with another status, a rejection
Answers == {"ok", "garbled", "bad", "error"}

\* variant: only the address is required
missingTarget_ipOnly(body) ==
    "rtp_ip" \notin DOMAIN body \/ body.rtp_ip = ""

\* !rtp_ip || !rtp_port
missingTarget(body) ==
    \/ "rtp_ip" \notin DOMAIN body \/ body.rtp_ip = ""
    \/ "rtp_port" \notin DOMAIN body \/ body.rtp_port = 0

\* variant: the status of the PUT response is not looked at
deviceStep_putUnchecked(pc, answer) ==
    CASE pc = "get" /\ answer = "ok" -> [pc |-> "put", status |-> "", reason |-> ""]
      [] pc = "get" /\ answer = "bad" ->
            [pc |-> "done", status |-> "failure", reason |-> "Failed to fetch config"]
      [] pc = "put" /\ answer \in {"ok", "garbled", "bad"} ->
            [pc |-> "restart", status |-> "", reason |-> ""]
      [] pc = "restart" /\ answer # "error" ->
            [pc |-> "done", status |-> "success", reason |-> ""]
      [] OTHER -> [pc |-> "done", status |-> "failure", reason |-> "fetch failed"]

\* the async callback of devices.map after the fetch it awaits has settled:
\* where it stands next, and what it returns once it is done
deviceStep(pc, answer) ==
    CASE pc = "get" /\ answer = "ok" -> [pc |-> "put", status |-> "", reason |-> ""]
      [] pc = "get" /\ answer = "bad" ->
            [pc |-> "done", status |-> "failure", reason |-> "Failed to fetch config"]
      [] pc = "put" /\ answer \in {"ok", "garbled"} ->
            [pc |-> "restart", status |-> "", reason |-> ""]
      [] pc = "put" /\ answer = "bad" ->
            [pc |-> "done", status |-> "failure", reason |-> "Failed to save config"]
      [] pc = "restart" /\ answer # "error" ->
            [pc |-> "done", status |-> "success", reason |-> ""]
      [] OTHER -> [pc |-> "done", status |-> "failure", reason |-> "fetch failed"]

\* the request the callback sends on entering a step
requestOf(pc) ==
    CASE pc = "get"     -> "GET /api/config"
      [] pc = "put"     -> "PUT /api/config"
      [] pc = "restart" -> "POST /api/system/restart"
      [] OTHER          -> ""

InitSync == CodecIdle /\ IngestIdle /\ ParserIdle /\ OscIdle /\ AppIdle /\ SyncIdle

\* browser.on("up"): Map.set keeps the place of a key it already holds
DeviceUp ==
    /\ \E d \in Devices :
         /\ \A i \in 1..Len(discoveredDevices) : discoveredDevices[i] # d
         /\ Len(discoveredDevices) < MaxDevices
         /\ discoveredDevices' = Append(discoveredDevices, d)
    /\ UNCHANGED <<syncDevices, syncTasks, syncSent, syncReply>>
    /\ UNCHANGED <<codecVars, ingestVars, parserVars, oscVars, appVars>>

\* browser.on("down")
DeviceDown ==
    /\ \E i \in 1..Len(discoveredDevices) :
         discoveredDevices' =
             SubSeq(discoveredDevices, 1, i - 1)
             \o SubSeq(discoveredDevices, i + 1, Len(discoveredDevices))
    /\ UNCHANGED <<syncDevices, syncTasks, syncSent, syncReply>>
    /\ UNCHANGED <<codecVars, ingestVars, parserVars, oscVars, appVars>>

\* POST /api/sync arrives while no other is served: 400, or every callback of
\* devices.map runs up to its first await, which sends its GET
PostSync ==
    /\ syncReply.kind # "running"
    /\ \E body \in SyncBodies :
         IF missingTarget(body)
         THEN /\ syncReply' = [kind |-> "reply", status |-> 400, results |-> << >>,
                                body |-> body]
              /\ syncDevices' = << >>
              /\ syncTasks' = << >>
              /\ syncSent' = << >>
         ELSE /\ syncReply' = [kind |-> "running", body |-> body]
              /\ syncDevices' = discoveredDevices
              /\ syncTasks' = [i \in 1..Len(discoveredDevices) |->
                                 [pc |-> "get", status |-> "", reason |-> "",
                                  answers |-> << >>]]
              /\ syncSent' = [i \in 1..Len(discoveredDevices) |->
                                 [device |-> discoveredDevices[i],
                                  request |-> requestOf("get")]]
    /\ UNCHANGED discoveredDevices
    /\ UNCHANGED <<codecVars, ingestVars, parserVars, oscVars, appVars>>

\* the fetch a callback awaits settles and the callback runs to its next
\* await or to its return
TaskResumes ==
    /\ syncReply.kind = "running"
    /\ \E i \in 1..Len(syncTasks), answer \in Answers :
         LET next == deviceStep(syncTasks[i].pc, answer) IN
         /\ syncTasks[i].pc # "done"
         /\ syncTasks' = [syncTasks EXCEPT ![i] =
                             next @@ [answers |-> Append(syncTasks[i].answers, answer)]]
         /\ syncSent' =
               IF next.pc = "done" THEN syncSent
               ELSE Append(syncSent,
                           IF next.pc = "put"
                           THEN [device |-> syncDevices[i], request |-> requestOf("put"),
                                 rtp_midi_target_ip |-> syncReply.body.rtp_ip,
                                 rtp_midi_target_port |-> syncReply.body.rtp_port]
                           ELSE [device |-> syncDevices[i], request |-> requestOf(next.pc)])
    /\ UNCHANGED <<discoveredDevices, syncDevices, syncReply>>
    /\ UNCHANGED <<codecVars, ingestVars, parserVars, oscVars, appVars>>

\* Promise.allSettled resolves and the handler answers with the results
SyncReplies ==
    /\ syncReply.kind = "running"
    /\ \A i \in 1..Len(syncTasks) : syncTasks[i].pc = "done"
    /\ syncReply' = [kind |-> "reply", status |-> 200,
                     results |-> [i \in 1..Len(syncTasks) |->
                                    [name |-> syncDevices[i],
                                     status |-> syncTasks[i].status,
                                     reason |-> syncTasks[i].reason]],
                     body |-> syncReply.body]
    /\ UNCHANGED <<discoveredDevices, syncDevices, syncTasks, syncSent>>
    /\ UNCHANGED <<codecVars, ingestVars, parserVars, oscVars, appVars>>

NextSync ==
    \/ DeviceUp
    \/ DeviceDown
    \/ PostSync
    \/ TaskResumes
    \/ SyncReplies

SpecSync == InitSync /\ [][NextSync]_vars

(***************************************************************************)
(* The configuration pages: part_009 (app), client.js, app.js (frontend),  *)
(* and the configuration store they talk to                                *)
(***************************************************************************)

\* the most clicks of a session on the page outside the dialog
MaxOps == 2

\* the most submits of the dialog in a session
MaxSubmits == 1

Pages == {"app", "client", "frontend"}

\* mappings as the store holds them; the description stands for the content
StoredMapping(id, description) == [id |-> id, description |-> description]

InitialConfig ==
    [midi_input_name |-> "a",
     osc_mappings |-> {StoredMapping("m1", "v1"), StoredMapping("m2", "v1")}]

\* the configuration file and the mappings file the operator may upload
ConfigFile ==
    [midi_input_name |-> "b", osc_mappings |-> {StoredMapping("m2", "v1")}]

MappingsFile == {StoredMapping("m2", "v2")}

idsOf(config) == {m.id : m \in config.osc_mappings}

\* the store: put(Config) replaces the configuration, create adds a mapping
\* under a fresh id, update(id) replaces the mapping of that id, delete
\* removes; an upload of a configuration replaces it, an upload of mappings
\* overwrites the matching ones and adds the others
storeApply(config, req) ==
    CASE req.kind = "create" ->
            [config EXCEPT !.osc_mappings =
                @ \cup {StoredMapping("m3", req.body.description)}]
      [] req.kind = "update" ->
            [config EXCEPT !.osc_mappings =
                {IF m.id = req.id THEN StoredMapping(m.id, req.body.description) ELSE m :
                    m \in @}]
      [] req.kind = "delete" ->
            [config EXCEPT !.osc_mappings = {m \in @ : m.id # req.id}]
      [] req.kind = "bulk_delete" ->
            [config EXCEPT !.osc_mappings = {m \in @ : m.id \notin req.ids}]
      [] req.kind \in {"save", "upload_config"} -> req.body
      [] req.kind = "upload_mappings" ->
            [config EXCEPT !.osc_mappings =
                {m \in @ : m.id \notin {f.id : f \in req.body}} \cup req.body]
      [] OTHER -> config

\* the store cannot serve the request: no mapping of that id
storeRefuses(config, req) ==
    req.kind = "update" /\ req.id \notin idsOf(config)

\* what is in flight for a request just sent
Sent == [stage |-> "sent", result |-> "", payload |-> [midi_input_name |-> "",
                                                        osc_mappings |-> {}]]

\* what is kept of a request whose continuation has run
Settled(answer) == [Sent EXCEPT !.stage = "settled", !.result = answer]

\* fetchAPI: the parsed body of an answer with an OK status, null for any
\* other answer and for none
fetchAPI(outcome) == IF outcome = "ok" THEN "ok" ELSE "null"

\* the GET of /api/config that loadInitialData and loadMappings send
LoadRequest == [kind |-> "load"]

\* variant: the click on Add leaves editingMappingId as it is
idOnAdd_kept(id) == id

\* showFormBtn click, resetMappingForm: editingMappingId = null
idOnAdd(id) == ""

\* variant: an update is sent under the id of the first mapping of the table
submitRequest_firstRow(p, id, editMode, data, asOpened) ==
    IF (p = "client" /\ editMode) \/ (p # "client" /\ id # "")
    THEN [kind |-> "update", id |-> "m1", body |-> data @@ [id |-> "m1"],
          openedAs |-> asOpened]
    ELSE [kind |-> "create", id |-> "", body |-> data, openedAs |-> asOpened]

\* the request of the submit handler: PUT /api/mappings/<id> when the page is
\* editing, POST /api/mappings otherwise; the app page tells by
\* editingMappingId and puts the id into the body, client.js by isEditMode
submitRequest(p, id, editMode, data, asOpened) ==
    IF (p = "client" /\ editMode) \/ (p # "client" /\ id # "")
    THEN [kind |-> "update", id |-> id,
          body |-> IF p = "client" THEN data ELSE data @@ [id |-> id],
          openedAs |-> asOpened]
    ELSE [kind |-> "create", id |-> "", body |-> data, openedAs |-> asOpened]

\* a request is sent: it is logged and in flight
send(req) ==
    /\ requestLog' = Append(requestLog, req)
    /\ pending' = Append(pending, Sent)

\* a continuation ends and sends a request
settleAndSend(n, req) ==
    /\ requestLog' = Append(requestLog, req)
    /\ pending' = Append([pending EXCEPT ![n] = Settled(pending[n].result)], Sent)

settle(n) ==
    /\ pending' = [pending EXCEPT ![n] = Settled(pending[n].result)]
    /\ UNCHANGED requestLog

\* the requests of a kind that are answered and whose continuation has not run
answered(kinds) ==
    {n \in 1..Len(pending) : pending[n].stage = "answered" /\ requestLog[n].kind \in kinds}

otherVars == <<codecVars, ingestVars, parserVars, oscVars, syncVars>>

\* a page is opened on the stored configuration and starts to load it
OpenPage ==
    /\ page = "none"
    /\ IngestIdle
    /\ \E p \in Pages : page' = p
    /\ serverConfig' = InitialConfig
    /\ send(LoadRequest)
    /\ UNCHANGED <<currentConfig, editingMappingId, isEditMode, dialogOpen, openedAs,
                   selectedMappingIds, ops>>
    /\ UNCHANGED otherVars

\* click on Add New Mapping
ClickAdd ==
    /\ page \in {"app", "client"}
    /\ ~dialogOpen
    /\ ops < MaxOps
    /\ ops' = ops + 1
    /\ editingMappingId' = idOnAdd(editingMappingId)
    /\ isEditMode' = FALSE
    /\ dialogOpen' = TRUE
    /\ openedAs' = "add"
    /\ UNCHANGED <<page, serverConfig, currentConfig, selectedMappingIds, pending, requestLog>>
    /\ UNCHANGED otherVars

\* click on the Edit button of a row: the mapping is looked up in the page's
\* copy and the dialog opens on it
ClickEdit ==
    /\ page \in {"app", "client"}
    /\ ~dialogOpen
    /\ ops < MaxOps
    /\ \E id \in idsOf(currentConfig) :
         /\ editingMappingId' = id
         /\ openedAs' = id
    /\ isEditMode' = (page = "client")
    /\ dialogOpen' = TRUE
    /\ ops' = ops + 1
    /\ UNCHANGED <<page, serverConfig, currentConfig, selectedMappingIds, pending, requestLog>>
    /\ UNCHANGED otherVars

\* click on Cancel in the dialog
ClickCancel ==
    /\ page \in {"app", "client"}
    /\ dialogOpen
    /\ dialogOpen' = FALSE
    /\ editingMappingId' = IF page = "app" THEN "" ELSE editingMappingId
    /\ UNCHANGED <<page, serverConfig, currentConfig, isEditMode, openedAs,
                   selectedMappingIds, pending, requestLog, ops>>
    /\ UNCHANGED otherVars

\* Escape closes a modal dialog without any handler of the page
PressEscape ==
    /\ page \in {"app", "client"}
    /\ dialogOpen
    /\ dialogOpen' = FALSE
    /\ UNCHANGED <<page, serverConfig, currentConfig, editingMappingId, isEditMode,
                   openedAs, selectedMappingIds, pending, requestLog, ops>>
    /\ UNCHANGED otherVars

\* submit of the dialog with a form that encodes: the request is sent
SubmitForm ==
    /\ page \in {"app", "client"}
    /\ dialogOpen
    /\ Cardinality({n \in 1..Len(requestLog) :
                       requestLog[n].kind \in {"create", "update"}}) < MaxSubmits
    /\ send(submitRequest(page, editingMappingId, isEditMode,
                          [description |-> "v2"], openedAs))
    /\ UNCHANGED <<page, serverConfig, currentConfig, editingMappingId, isEditMode,
                   dialogOpen, openedAs, selectedMappingIds, ops>>
    /\ UNCHANGED otherVars

\* click on the checkbox of a row of the app page
ClickCheckbox ==
    /\ page = "app"
    /\ ~dialogOpen
    /\ ops < MaxOps
    /\ ops' = ops + 1
    /\ \E id \in idsOf(currentConfig) :
         selectedMappingIds' = IF id \in selectedMappingIds
                               THEN selectedMappingIds \ {id}
                               ELSE selectedMappingIds \cup {id}
    /\ UNCHANGED <<page, serverConfig, currentConfig, editingMappingId, isEditMode,
                   dialogOpen, openedAs, pending, requestLog>>
    /\ UNCHANGED otherVars

\* change of the select-all checkbox: every row shown is added or removed
SelectAll ==
    /\ page = "app"
    /\ ~dialogOpen
    /\ ops < MaxOps
    /\ ops' = ops + 1
    /\ \E checked \in BOOLEAN :
         selectedMappingIds' = IF checked
                               THEN selectedMappingIds \cup idsOf(currentConfig)
                               ELSE selectedMappingIds \ idsOf(currentConfig)
    /\ UNCHANGED <<page, serverConfig, currentConfig, editingMappingId, isEditMode,
                   dialogOpen, openedAs, pending, requestLog>>
    /\ UNCHANGED otherVars

\* click on the Delete button of a row, confirmed
ClickDelete ==
    /\ page \in {"app", "client"}
    /\ ~dialogOpen
    /\ ops < MaxOps
    /\ ops' = ops + 1
    /\ \E id \in idsOf(currentConfig) : send([kind |-> "delete", id |-> id])
    /\ UNCHANGED <<page, serverConfig, currentConfig, editingMappingId, isEditMode,
                   dialogOpen, openedAs, selectedMappingIds>>
    /\ UNCHANGED otherVars

\* click on Delete Selected, confirmed
DeleteSelected ==
    /\ page = "app"
    /\ ~dialogOpen
    /\ ops < MaxOps
    /\ selectedMappingIds # {}
    /\ ops' = ops + 1
    /\ send([kind |-> "bulk_delete", ids |-> selectedMappingIds])
    /\ UNCHANGED <<page, serverConfig, currentConfig, editingMappingId, isEditMode,
                   dialogOpen, openedAs, selectedMappingIds>>
    /\ UNCHANGED otherVars

\* a configuration file is chosen for upload, confirmed
UploadConfig ==
    /\ page = "app"
    /\ ~dialogOpen
    /\ ops < MaxOps
    /\ ops' = ops + 1
    /\ send([kind |-> "upload_config", body |-> ConfigFile])
    /\ UNCHANGED <<page, serverConfig, currentConfig, editingMappingId, isEditMode,
                   dialogOpen, openedAs, selectedMappingIds>>
    /\ UNCHANGED otherVars

\* a mappings file is chosen for upload, confirmed
UploadMappings ==
    /\ page = "app"
    /\ ~dialogOpen
    /\ ops < MaxOps
    /\ ops' = ops + 1
    /\ send([kind |-> "upload_mappings", body |-> MappingsFile])
    /\ UNCHANGED <<page, serverConfig, currentConfig, editingMappingId, isEditMode,
                   dialogOpen, openedAs, selectedMappingIds>>
    /\ UNCHANGED otherVars

\* the page holds a loaded configuration
loaded == currentConfig.midi_input_name # ""

\* click on Save and Restart.  The app page and the frontend send their copy
\* of the configuration with the device chosen in the select; client.js
\* first asks for the stored configuration.
SaveAndRestart ==
    /\ page # "none"
    /\ ~dialogOpen
    /\ ops < MaxOps
    /\ ops' = ops + 1
    /\ \E name \in {"a", "b"} :
         IF page = "client"
         THEN send([kind |-> "save_get", settings |-> name])
         ELSE /\ loaded
              /\ send([kind |-> "save",
                       body |-> [currentConfig EXCEPT !.midi_input_name = name]])
    /\ UNCHANGED <<page, serverConfig, currentConfig, editingMappingId, isEditMode,
                   dialogOpen, openedAs, selectedMappingIds>>
    /\ UNCHANGED otherVars

\* the answers a request can get: served, refused with an error status, or
\* no answer at all
Outcomes == {"ok", "bad", "error"}

\* the server takes a request and answers it; the payload is the stored
\* configuration the request met
ServerHandles ==
    /\ \E n \in 1..Len(pending) : \E outcome \in Outcomes :
         /\ pending[n].stage \in {"sent", "orphan"}
         /\ outcome = "ok" => ~storeRefuses(serverConfig, requestLog[n])
         /\ serverConfig' = IF outcome = "ok"
                            THEN storeApply(serverConfig, requestLog[n])
                            ELSE serverConfig
         /\ pending' = [pending EXCEPT ![n] =
                          IF pending[n].stage = "orphan"
                          THEN Settled(outcome)
                          ELSE [stage |-> "answered",
                                result |-> IF page = "client" THEN outcome
                                           ELSE fetchAPI(outcome),
                                payload |-> serverConfig]]
    /\ UNCHANGED <<page, currentConfig, editingMappingId, isEditMode, dialogOpen,
                   openedAs, selectedMappingIds, requestLog, ops>>
    /\ UNCHANGED otherVars

\* the request of the dialog is answered.  The app page closes the dialog,
\* forgets the id and reloads whatever the answer; client.js reloads and
\* closes on success only.
SubmitSettles ==
    /\ \E n \in answered({"create", "update"}) :
         IF page = "app"
         THEN /\ dialogOpen' = FALSE
              /\ editingMappingId' = ""
              /\ settleAndSend(n, LoadRequest)
         ELSE IF pending[n].result = "ok"
         THEN /\ dialogOpen' = FALSE
              /\ settleAndSend(n, LoadRequest)
              /\ UNCHANGED editingMappingId
         ELSE /\ settle(n)
              /\ UNCHANGED <<dialogOpen, editingMappingId>>
    /\ UNCHANGED <<page, serverConfig, currentConfig, isEditMode, openedAs,
                   selectedMappingIds, ops>>
    /\ UNCHANGED otherVars

\* a delete is answered: the app page unselects the id and reloads; client.js
\* reloads unless the request failed to arrive
DeleteSettles ==
    /\ \E n \in answered({"delete", "bulk_delete"}) :
         /\ selectedMappingIds' =
              IF page # "app" THEN selectedMappingIds
              ELSE IF requestLog[n].kind = "delete"
              THEN selectedMappingIds \ {requestLog[n].id}
              ELSE {}
         /\ IF page = "app" \/ pending[n].result # "error"
            THEN settleAndSend(n, LoadRequest)
            ELSE settle(n)
    /\ UNCHANGED <<page, serverConfig, currentConfig, editingMappingId, isEditMode,
                   dialogOpen, openedAs, ops>>
    /\ UNCHANGED otherVars

\* an upload is answered: the page reloads on success
UploadSettles ==
    /\ \E n \in answered({"upload_config", "upload_mappings"}) :
         IF pending[n].result = "ok"
         THEN settleAndSend(n, LoadRequest)
         ELSE settle(n)
    /\ UNCHANGED <<page, serverConfig, currentConfig, editingMappingId, isEditMode,
                   dialogOpen, openedAs, selectedMappingIds, ops>>
    /\ UNCHANGED otherVars

\* the configuration asked for arrives and replaces the page's copy; the
\* selection is left as it is
LoadSettles ==
    /\ \E n \in answered({"load"}) :
         /\ currentConfig' = IF pending[n].result = "ok"
                             THEN pending[n].payload
                             ELSE currentConfig
         /\ settle(n)
    /\ UNCHANGED <<page, serverConfig, editingMappingId, isEditMode, dialogOpen,
                   openedAs, selectedMappingIds, ops>>
    /\ UNCHANGED otherVars

\* whether the page goes on to the restart when the PUT of the settings is
\* answered: fetchAPI of the app page and the frontend gives null for an
\* error status and for no answer, and the handler returns; the promise of
\* fetch in client.js is fulfilled by any answer and its status is not read
restartFollows(p, answer) ==
    IF p = "client" THEN answer # "error" ELSE answer = "ok"

\* client.js: the stored configuration arrives, the settings are laid over
\* it and the whole is sent back
SaveGetSettles ==
    /\ \E n \in answered({"save_get"}) :
         IF pending[n].result = "ok"
         THEN settleAndSend(n,
                 [kind |-> "save",
                  body |-> [pending[n].payload EXCEPT
                               !.midi_input_name = requestLog[n].settings]])
         ELSE settle(n)
    /\ UNCHANGED <<page, serverConfig, currentConfig, editingMappingId, isEditMode,
                   dialogOpen, openedAs, selectedMappingIds, ops>>
    /\ UNCHANGED otherVars

\* the PUT of the settings is answered: the restart is requested, or the
\* handler gives up
SaveSettles ==
    /\ \E n \in answered({"save"}) :
         IF restartFollows(page, pending[n].result)
         THEN settleAndSend(n, [kind |-> "restart", after |-> n])
         ELSE settle(n)
    /\ UNCHANGED <<page, serverConfig, currentConfig, editingMappingId, isEditMode,
                   dialogOpen, openedAs, selectedMappingIds, ops>>
    /\ UNCHANGED otherVars

\* the restart is answered or the connection drops: the page waits for its
\* reload
RestartSettles ==
    /\ \E n \in answered({"restart"}) : settle(n)
    /\ UNCHANGED <<page, serverConfig, currentConfig, editingMappingId, isEditMode,
                   dialogOpen, openedAs, selectedMappingIds, ops>>
    /\ UNCHANGED otherVars

\* location.reload() five seconds after the restart: the page starts anew
\* and loads; what the old page was waiting for is answered to nobody
PageReloads ==
    /\ \E n \in 1..Len(pending) :
         /\ requestLog[n].kind = "restart"
         /\ pending[n].stage = "settled"
         /\ requestLog' = Append(requestLog, LoadRequest)
         /\ pending' = Append(
              [k \in 1..Len(pending) |->
                  IF k = n THEN [pending[k] EXCEPT !.stage = "reloaded"]
                  ELSE IF pending[k].stage = "sent"
                  THEN [pending[k] EXCEPT !.stage = "orphan"]
                  ELSE IF pending[k].stage = "answered"
                  THEN Settled(pending[k].result)
                  ELSE pending[k]],
              Sent)
    /\ currentConfig' = [midi_input_name |-> "", osc_mappings |-> {}]
    /\ editingMappingId' = ""
    /\ isEditMode' = FALSE
    /\ dialogOpen' = FALSE
    /\ selectedMappingIds' = {}
    /\ UNCHANGED <<page, serverConfig, openedAs, ops>>
    /\ UNCHANGED otherVars

InitApp == CodecIdle /\ IngestIdle /\ ParserIdle /\ OscIdle /\ AppIdle /\ SyncIdle

NextApp ==
    \/ OpenPage
    \/ ClickAdd
    \/ ClickEdit
    \/ ClickCancel
    \/ PressEscape
    \/ SubmitForm
    \/ ClickCheckbox
    \/ SelectAll
    \/ ClickDelete
    \/ DeleteSelected
    \/ UploadConfig
    \/ UploadMappings
    \/ SaveAndRestart
    \/ ServerHandles
    \/ SubmitSettles
    \/ DeleteSettles
    \/ UploadSettles
    \/ LoadSettles
    \/ SaveGetSettles
    \/ SaveSettles
    \/ RestartSettles
    \/ PageReloads

SpecApp == InitApp /\ [][NextApp]_vars

\* the generator page and the configuration pages are separate documents: a
\* session is on the one or on the others
NextPages ==
    \/ page = "none" /\ NextIngest
    \/ NextApp

SpecPages == InitIngest /\ [][NextPages]_vars

(***************************************************************************)
(* Properties of the codec (checked under SpecCodec)                       *)
(***************************************************************************)

\* params is a patch inside the declared domains
ValidPatch ==
    /\ params.category = "patch"
    /\ params.setlist \in SetlistMin..SetlistMax
    /\ params.number \in PatchNumberMin..PatchNumberMax
    /\ params.letter \in 0..7

FormEncoders == {"app", "frontend", "generator", "client"}

\* the midi_sequences a result carries, in order
producedSeqs(r) ==
    IF r.kind = "mapping" THEN << r.midi_sequence >>
    ELSE IF r.kind = "list" THEN [i \in 1..Len(r.mappings) |-> r.mappings[i].midi_sequence]
    ELSE << >>

\* every event of every produced sequence
producedEvents(r) ==
    UNION { {producedSeqs(r)[i][j] : j \in 1..Len(producedSeqs(r)[i])} :
            i \in 1..Len(producedSeqs(r)) }

presetIndexOf(p) == (p.number - 1) * 8 + p.letter

\* C1: for a patch in its declared domains (setlist 1..13, patchNumber 1..32,
\* letter index 0..7) every encoder, the four form encoders and the CSV
\* ingestion, yields exactly one sequence of exactly three events on channel
\* 1, in this order: CC 0 = bank, CC 32 = setlist - 1, program change =
\* program, with bank = 1 if presetIndex > 127 else 0 and program =
\* presetIndex mod 128.
C1_PatchThreeEvents ==
    (phase = "encoded" /\ ValidPatch) =>
        producedSeqs(result) =
            << << [type |-> "control_change", channel |-> 1, control |-> 0,
                   value |-> IF presetIndexOf(params) > 127 THEN 1 ELSE 0],
                  [type |-> "control_change", channel |-> 1, control |-> 32,
                   value |-> params.setlist - 1],
                  [type |-> "program_change", channel |-> 1,
                   program |-> presetIndexOf(params) % 128] >> >>

\* a patch of the second bank, setlist 13, was ingested from a CSV row
C1_Witness ==
    /\ phase = "encoded"
    /\ encoder = "csv"
    /\ ValidPatch
    /\ params.number = 17
    /\ params.letter = 0
    /\ params.setlist = 13
    /\ Len(producedSeqs(result)) = 1

\* params is inside the declared domains of its category
InDomain ==
    \/ ValidPatch
    \/ params.category \in {"scene", "footswitch"} /\ params.letter \in 0..7
    \/ params.category = "mode_view" /\ params.action \in ModeViewOptions
    \/ params.category = "looper" /\ params.action \in LooperOptions

\* the numeric fields of an event
eventNumbers(m) ==
    IF m.type = "program_change" THEN {m.program} ELSE {m.control, m.value}

\* C2: for inputs in their declared domains every control, value and program
\* of every event any encoder emits (form or CSV, all five categories) lies
\* in 0..127, and the bank a patch emits is floor(presetIndex / 128).
C2_SevenBitFields ==
    (phase = "encoded" /\ InDomain) =>
        /\ \A m \in producedEvents(result) : eventNumbers(m) \subseteq 0..127
        /\ \A i \in 1..Len(producedSeqs(result)) :
              params.category = "patch" =>
                  producedSeqs(result)[i][1].value = presetIndexOf(params) \div 128

\* the last patch, 32H, was encoded by a form encoder: program 127, bank 1
C2_Witness ==
    /\ phase = "encoded"
    /\ encoder = "client"
    /\ ValidPatch
    /\ params.number = 32
    /\ params.letter = 7
    /\ result.kind = "mapping"
    /\ result.midi_sequence[3].program = 127

\* C3: patch round trip.  For a patch in its declared domains, opening in
\* the edit flow the mapping an encoder produced shows category patch, the
\* same patchNumber, the same letter, and setlist = (value of CC 32) + 1.
C3_PatchRoundTrip ==
    (phase = "opened" /\ decoder = "app" /\ ValidPatch) =>
        /\ opened = "ok"
        /\ form.category = "patch"
        /\ parseInt(form.patch_number) = params.number
        /\ parseInt(form.patch_letter) = params.letter
        /\ parseInt(form.patch_setlist) = mappingOf(result).midi_sequence[2].value + 1
        /\ parseInt(form.patch_setlist) = params.setlist

\* a patch of the second bank went through encode and the edit flow
C3_Witness ==
    /\ phase = "opened"
    /\ decoder = "app"
    /\ ValidPatch
    /\ params.number = 20
    /\ params.letter = 3
    /\ params.setlist = 5
    /\ form.patch_number = "20"

\* C4: for each of the 7 mode_view and the 8 looper actions and for every
\* encoder copy, opening in the edit flow the mapping the encoder produced
\* for the action shows the same category and the same action.
C4_ActionRoundTrip ==
    (phase = "opened" /\ decoder = "app" /\ params.category \in {"mode_view", "looper"}) =>
        /\ form.category = params.category
        /\ params.category = "mode_view" => form.mode_view_select = params.action
        /\ params.category = "looper" => form.looper_select = params.action

\* C5: a submit of a patch whose setlist or patch number is outside its
\* declared domain, or not a number, produces no mapping.
C5_InvalidPatchRejected ==
    (/\ phase = "encoded"
     /\ encoder \in FormEncoders
     /\ params.category = "patch"
     /\ ~ValidPatch) =>
        result.kind # "mapping"

\* the form as an encoder read it names no category, or an action outside
\* the closed set of its category
unknownTag(f) ==
    \/ f.category \notin {"patch", "scene", "footswitch", "mode_view", "looper"}
    \/ f.category = "mode_view" /\ f.mode_view_select \notin ModeViewOptions
    \/ f.category = "looper" /\ f.looper_select \notin LooperOptions

\* C6: no encoder yields a partially constructed mapping: every sequence it
\* yields is non-empty and none of its events has an undefined control,
\* value or program; and a submit of a form with no category, or with an
\* action outside the closed set, yields no mapping at all.
C6_NoPartialMapping ==
    (phase \in {"encoded", "resubmitted"}) =>
        /\ \A i \in 1..Len(producedSeqs(result)) : Len(producedSeqs(result)[i]) > 0
        /\ \A m \in producedEvents(result) : Undefined \notin eventNumbers(m)
        /\ (encoder \in FormEncoders /\ unknownTag(form)) => result.kind # "mapping"

\* the edit dialog showed mode_view with no action selected (a stored CC 47
\* with a value that is no mode) and was submitted: the encoder threw
C6_Witness ==
    /\ phase = "resubmitted"
    /\ form.category = "mode_view"
    /\ form.mode_view_select = ""
    /\ result.kind = "throw"

\* the control numbers of the control changes of a sequence
ccControls(seq) == {seq[i].control : i \in {j \in 1..Len(seq) : seq[j].type = "control_change"}}

hasProgramChange(seq) == \E i \in 1..Len(seq) : seq[i].type = "program_change"

\* a sequence that is one control change on a control of the set
loneCC(seq, controls) ==
    Len(seq) = 1 /\ seq[1].type = "control_change" /\ seq[1].control \in controls

\* the fields of the form other than the address are the markup's defaults
blankParameters(f) == [f EXCEPT !.osc_address = ""] = FormDefault

\* C7 as stated: patch for CC 0 + CC 32 + program change; scene, footswitch,
\* mode_view, looper only for a lone CC; Unclassified with blank parameters
\* for every other sequence.
C7_LoneSignatures ==
    (phase = "opened" /\ decoder = "app" /\ "midi_sequence" \in DOMAIN stored) =>
        LET seq == stored.midi_sequence IN
        form.category =
            (IF {0, 32} \subseteq ccControls(seq) /\ hasProgramChange(seq) THEN "patch"
             ELSE IF loneCC(seq, {43}) THEN "scene"
             ELSE IF loneCC(seq, 35..42) THEN "footswitch"
             ELSE IF loneCC(seq, {45, 46, 47}) THEN "mode_view"
             ELSE IF loneCC(seq, {48, 50, 51, 53, 54, 55, 56}) THEN "looper"
             ELSE "")

\* C7 amended: the first signature that matches, in this order: patch when
\* the sequence contains CC 0, CC 32 and a program change; scene when it
\* contains a CC 43; footswitch when it contains a CC in 35..42; mode_view
\* when it contains a CC 45, 46 or 47; looper when it contains a CC 48, 50,
\* 51, 53, 54, 55 or 56; a sequence that contains none is Unclassified and
\* leaves every parameter field at its default.
C7_ContainsSignatures ==
    (phase = "opened" /\ decoder = "app" /\ "midi_sequence" \in DOMAIN stored) =>
        LET seq == stored.midi_sequence
            cc  == ccControls(seq)
        IN  /\ opened = "ok"
            /\ form.category =
                (IF {0, 32} \subseteq cc /\ hasProgramChange(seq) THEN "patch"
                 ELSE IF 43 \in cc THEN "scene"
                 ELSE IF cc \cap (35..42) # {} THEN "footswitch"
                 ELSE IF cc \cap {45, 46, 47} # {} THEN "mode_view"
                 ELSE IF cc \cap {48, 50, 51, 53, 54, 55, 56} # {} THEN "looper"
                 ELSE "")
            /\ form.category = "" => blankParameters(form)

\* a scene select followed by another control change was opened: scene
C7_Witness ==
    /\ phase = "opened"
    /\ decoder = "app"
    /\ "midi_sequence" \in DOMAIN stored
    /\ stored.midi_sequence = << ControlChange(Channel, 43, 0), ControlChange(Channel, 5, 0) >>
    /\ form.category = "scene"

\* C8: opening a stored mapping for edit never throws, whatever the mapping:
\* an empty midi_sequence, no midi_sequence at all (mapping_type osc), or
\* events that match no signature; it ends with an Unclassified form.
C8_EditNeverThrows ==
    (phase = "opened" /\ stored # NoMapping) =>
        /\ opened = "ok"
        /\ ("midi_sequence" \notin DOMAIN stored \/ stored.midi_sequence = << >>)
              => form.category = ""

(***************************************************************************)
(* Properties of the importer (checked under SpecIngest)                   *)
(***************************************************************************)

\* the configured column is one of the header cells the file was written from
columnPresent(file) == \E k \in 1..Len(file.cells) : file.cells[k] = parserSettings.column_name

endsWith(s, suffix) ==
    Len(s) >= Len(suffix) /\ SubSeq(s, Len(s) - Len(suffix) + 1, Len(s)) = suffix

addressesOf(file) ==
    LET r == parseSongCsvJs(file.text, stripCsvExt(file.name), 0, parserSettings, 0) IN
    IF r.kind = "list" THEN {r.mappings[k].osc_address : k \in 1..Len(r.mappings)} ELSE {}

outputAddresses == {generatedMappings[j].osc_address : j \in 1..Len(generatedMappings)}

\* C10: when the click handler has ended, the mappings of every file of the
\* batch that has the column are in the output, whether or not another file
\* of the batch failed with a missing column.
C10_SiblingsKept ==
    csvPhase \in {"done", "aborted"} =>
        \A i \in 1..Len(files) :
            columnPresent(files[i]) => addressesOf(files[i]) \subseteq outputAddresses

\* the addresses of the mappings made for a file start with this
addressStem(file) ==
    parserSettings.osc_prefix \o "/" \o sanitizeTitle(stripCsvExt(file.name)) \o "/"

\* the mappings the run has produced so far, and the output list
heldMappings ==
    {newMappingsFromCsv[j] : j \in 1..Len(newMappingsFromCsv)}
    \cup {generatedMappings[j] : j \in 1..Len(generatedMappings)}

\* C11: a file of the run whose header row lacks the configured column
\* contributes nothing: its parse returns no list, and no mapping with the
\* file's address stem is in the run's mappings or in the output list.
C11_NothingFromFailedFile ==
    \A i \in 1..Len(files) :
        ~columnPresent(files[i]) =>
            /\ i <= Len(parsed) => parsed[i].kind = "throw" /\ "mappings" \notin DOMAIN parsed[i]
            /\ \A m \in heldMappings : ~startsWith(m.osc_address, addressStem(files[i]))

\* a file with three mappings was parsed, then a file with a row but
\* without the column failed
C11_Witness ==
    /\ csvPhase = "aborted"
    /\ Len(files) = 2
    /\ files[1].name = "Intro.csv"
    /\ files[2].name = "notes.csv"
    /\ parserSettings.column_name = "Song Part"
    /\ Len(parsed) = 2
    /\ Len(newMappingsFromCsv) = 3
    /\ parsed[2].kind = "throw"

(***************************************************************************)
(* Properties of parseSongCsvJs (checked under SpecParse)                  *)
(***************************************************************************)

\* the rows that begin a run: the value differs from the row before
runStarts(rows) == {i \in 1..Len(rows) : i = 1 \/ rows[i] # rows[i - 1]}

\* the values of the runs of rows, in row order, kept when in keep
RECURSIVE runValuesFrom(_, _, _)
runValuesFrom(rows, i, keep) ==
    IF i > Len(rows) THEN << >>
    ELSE (IF i \in runStarts(rows) /\ rows[i] \in keep THEN << rows[i] >> ELSE << >>)
         \o runValuesFrom(rows, i + 1, keep)

\* the description of the action a run value stands for
describedAs(v, setlistNumber) ==
    CASE v = "1A" -> "QC: Setlist " \o numToString(setlistNumber + 1) \o ", Patch 1A"
      [] v = "FS A" -> "QC: Toggle Footswitch A"
      [] OTHER -> ""

descriptionsOf(c) == [k \in 1..Len(c.out.mappings) |-> c.out.mappings[k].description]

inRuns(c) == \A i \in 1..Len(c.rows) : c.rows[i] \in RunValues

\* C12 as stated: every run of a value, 'Intro' and 'Verse' included,
\* yields exactly one mapping.
C12_OneMappingPerRun ==
    \A n \in 1..Len(calls) :
        inRuns(calls[n]) =>
            Len(calls[n].out.mappings)
                = Len(runValuesFrom(calls[n].rows, 1, RunValues))

\* C12 amended: every run of a value that encodes to an action ('1A',
\* 'FS A') yields exactly one mapping, in row order, and the same value after
\* a different value yields a further mapping; a run of a value that encodes
\* to no action ('Intro', 'Verse') yields none, and still ends the run
\* before it.
C12_OneMappingPerEncodedRun ==
    \A n \in 1..Len(calls) :
        inRuns(calls[n]) =>
            descriptionsOf(calls[n])
                = [k \in 1..Len(runValuesFrom(calls[n].rows, 1, {"1A", "FS A"})) |->
                     describedAs(runValuesFrom(calls[n].rows, 1, {"1A", "FS A"})[k],
                                 calls[n].setlistNumber)]

\* '1A' five times, 'Intro' once, '1A' five times: two mappings, both 1A
C12_Witness ==
    /\ Len(calls) = 1
    /\ calls[1].rows = repeated("1A", 5) \o << "Intro" >> \o repeated("1A", 5)
    /\ Len(calls[1].out.mappings) = 2
    /\ calls[1].out.mappings[2].osc_address = "/song/song/2"

\* the index 0..7 of a letter A..H, -1 for any other text
letterIndex(t) == posIn("ABCDEFGH", t, 1) - 1

\* what a value that starts with a prefix must encode to: the remainder after
\* the two characters of the prefix, trimmed and uppercased, is looked up
afterPrefix(v) == toUpperCase(trim(SubSeq(v, 3, Len(v))))

prefixedSequence(v) ==
    IF Len(afterPrefix(v)) # 1 \/ letterIndex(afterPrefix(v)) < 0 THEN << >>
    ELSE IF SubSeq(v, 1, 2) = "FS"
    THEN << << [type |-> "control_change", channel |-> 1,
                control |-> 35 + letterIndex(afterPrefix(v)), value |-> 127] >> >>
    ELSE << << [type |-> "control_change", channel |-> 1,
                control |-> 43, value |-> letterIndex(afterPrefix(v))] >> >>

isPrefixed(v) == Len(v) >= 2 /\ SubSeq(v, 1, 2) \in {"FS", "SC"}

sequencesOf(c) == [k \in 1..Len(c.out.mappings) |-> c.out.mappings[k].midi_sequence]

\* rows without a value equal to the one before, so that none is skipped
noRepeat(rows) == \A i \in 2..Len(rows) : rows[i] # rows[i - 1]

RECURSIVE concatPrefixed(_)
concatPrefixed(rows) ==
    IF Len(rows) = 0 THEN << >>
    ELSE prefixedSequence(rows[1]) \o concatPrefixed(Tail(rows))

\* C13: a value that starts with the footswitch prefix yields CC 35+index
\* value 127 when exactly one letter A..H remains after stripping, trimming
\* and uppercasing, and otherwise nothing; a value that starts with the scene
\* prefix (and not with the footswitch prefix) yields CC 43 = index under
\* the same condition, and otherwise nothing; a value that fails the letter
\* check is never encoded as anything else.
C13_PrefixPriority ==
    \A n \in 1..Len(calls) :
        (/\ \A i \in 1..Len(calls[n].rows) : isPrefixed(calls[n].rows[i])
         /\ noRepeat(calls[n].rows)) =>
            sequencesOf(calls[n]) = concatPrefixed(calls[n].rows)

\* 'FS 1A' and 'SC 2B' match a prefix, fail the letter check and yield
\* nothing, although both hold a digit and a letter A..H
C13_Witness ==
    /\ Len(calls) = 1
    /\ calls[1].rows = << "FS 1A", "SC 2B" >>
    /\ calls[1].out.kind = "list"
    /\ Len(calls[1].out.mappings) = 0

\* the values that start with neither prefix, read by hand: the first run of
\* digits and the first letter, [number, letter]; number 0 where the value
\* has no digit, letter "" where it has no letter
firstDigitsAndLetter(v) ==
    CASE v = "1A"       -> [number |-> 1,  letter |-> "A"]
      [] v = "1a"       -> [number |-> 1,  letter |-> "a"]
      [] v = "A1"       -> [number |-> 1,  letter |-> "A"]
      [] v = "12b"      -> [number |-> 12, letter |-> "b"]
      [] v = "0A"       -> [number |-> 0,  letter |-> "A"]
      [] v = "33C"      -> [number |-> 33, letter |-> "C"]
      [] v = "1Z"       -> [number |-> 1,  letter |-> "Z"]
      [] v = "Bridge 2" -> [number |-> 2,  letter |-> "B"]
      [] v = "Verse 2"  -> [number |-> 2,  letter |-> "V"]
      [] v = "7"        -> [number |-> 7,  letter |-> ""]
      [] v = "fs c"     -> [number |-> 0,  letter |-> "f"]
      [] v = "Intro"    -> [number |-> 0,  letter |-> "I"]
      [] v = "Verse"    -> [number |-> 0,  letter |-> "V"]
      [] OTHER          -> [number |-> 0,  letter |-> ""]

\* the mapping such a value must yield: one patch when the number is >= 1
\* and the uppercased letter is in A..H, none otherwise
patchExpected(v, setlistNumber) ==
    LET p   == firstDigitsAndLetter(v)
        up  == toUpperCase(p.letter)
        idx == letterIndex(up)
    IN  IF p.number >= 1 /\ idx >= 0
        THEN << [description |-> "QC: Setlist " \o numToString(setlistNumber + 1)
                                 \o ", Patch " \o numToString(p.number) \o up,
                 cc32 |-> setlistNumber,
                 program |-> ((p.number - 1) * 8 + idx) % 128] >>
        ELSE << >>

RECURSIVE concatPatches(_, _)
concatPatches(rows, setlistNumber) ==
    IF Len(rows) = 0 THEN << >>
    ELSE patchExpected(rows[1], setlistNumber) \o concatPatches(Tail(rows), setlistNumber)

\* a produced mapping, as a patch: its description, CC 32 value and program
asPatch(m) ==
    [description |-> m.description,
     cc32 |-> m.midi_sequence[2].value,
     program |-> m.midi_sequence[3].program]

\* C14: a value that starts with neither prefix yields a patch exactly when
\* it holds a digit and a letter, its first digit run is >= 1 and its first
\* letter, uppercased, is in A..H; the patch has that number and that letter
\* and CC 32 carries the call's setlistIndex.
C14_PatchFromDigitsAndLetter ==
    \A n \in 1..Len(calls) :
        (/\ \A i \in 1..Len(calls[n].rows) :
                ~isPrefixed(calls[n].rows[i]) /\ calls[n].rows[i] # ""
         /\ noRepeat(calls[n].rows)) =>
            /\ \A k \in 1..Len(calls[n].out.mappings) :
                  Len(calls[n].out.mappings[k].midi_sequence) = 3
            /\ [k \in 1..Len(calls[n].out.mappings) |-> asPatch(calls[n].out.mappings[k])]
                  = concatPatches(calls[n].rows, calls[n].setlistNumber)

\* 'Bridge 2' is patch 2B, '0A' is nothing
C14_Witness ==
    /\ Len(calls) = 1
    /\ calls[1].rows = << "Bridge 2", "0A" >>
    /\ Len(calls[1].out.mappings) = 1
    /\ calls[1].out.mappings[1].description = "QC: Setlist 1, Patch 2B"

\* C15: a row whose patch number is above 32 yields no mapping, the warning
\* callback is called for it, and the rows after it are still encoded.
C15_RejectedRowWarns ==
    \A n \in 1..Len(calls) :
        \A i \in 1..Len(calls[n].rows) :
            calls[n].rows[i] = "33C" =>
                /\ \A k \in 1..Len(calls[n].out.mappings) :
                      calls[n].out.mappings[k].description
                          # "QC: Setlist " \o numToString(calls[n].setlistNumber + 1)
                            \o ", Patch 33C"
                /\ Len(calls[n].warnings) > 0
                /\ (i < Len(calls[n].rows) /\ calls[n].rows[i + 1] = "1A") =>
                      \E k \in 1..Len(calls[n].out.mappings) :
                          calls[n].out.mappings[k].description
                              = "QC: Setlist " \o numToString(calls[n].setlistNumber + 1)
                                \o ", Patch 1A"

\* the sanitized form of each title, written by hand
slugOf(title) ==
    CASE title = "Song"        -> "song"
      [] title = "Other"       -> "other"
      [] title = "My Song! #1" -> "my_song_1"
      [] title = "A__b--C"     -> "a_b_c"
      [] title = "__x__"       -> "_x_"
      [] title = "UPPER_9.v2"  -> "upper_9_v2"
      [] OTHER                 -> ""

\* the decimal numeral of k, 1 <= k <= 19
numeral(k) ==
    IF k < 10 THEN SubSeq("123456789", k, k)
    ELSE "1" \o SubSeq("0123456789", k - 9, k - 9)

\* C16: the k-th mapping returned for a song, counting only the rows that
\* produced a mapping, has the address osc_prefix/sanitizedTitle/k, so the
\* indices are 1..n without gap or repeat; the values '1A', '1A', 'FS A'
\* yield exactly the patch (bank 0, CC 32 = setlistIndex, program 0) at .../1
\* and the footswitch CC 35 = 127 at .../2.
C16_SequentialAddresses ==
    \A n \in 1..Len(calls) :
        /\ \A k \in 1..Len(calls[n].out.mappings) :
              calls[n].out.mappings[k].osc_address
                  = "/song/" \o slugOf(calls[n].title) \o "/" \o numeral(k)
        /\ calls[n].rows = << "1A", "1A", "FS A" >> =>
              sequencesOf(calls[n])
                  = << << [type |-> "control_change", channel |-> 1, control |-> 0, value |-> 0],
                          [type |-> "control_change", channel |-> 1, control |-> 32,
                           value |-> calls[n].setlistNumber],
                          [type |-> "program_change", channel |-> 1, program |-> 0] >>,
                       << [type |-> "control_change", channel |-> 1, control |-> 35,
                           value |-> 127] >> >>

\* 'Intro', '1A', 'FS A' on rows 1..3: the two mappings are at .../1 and
\* .../2, not at the row numbers
C16_Witness ==
    /\ Len(calls) = 1
    /\ calls[1].rows = << "Intro", "1A", "FS A" >>
    /\ Len(calls[1].out.mappings) = 2
    /\ calls[1].out.mappings[1].osc_address = "/song/song/1"
    /\ calls[1].out.mappings[2].osc_address = "/song/song/2"

\* the sanitized title inside the address of the k-th mapping of a call:
\* what stands between the prefix "/song/" and the final "/k"
slugIn(c, k) ==
    SubSeq(c.out.mappings[k].osc_address, 7,
           Len(c.out.mappings[k].osc_address) - 1 - Len(numeral(k)))

\* only characters of [a-z0-9_]
wordOnly(s) ==
    \A i \in 1..Len(s) :
        posIn("abcdefghijklmnopqrstuvwxyz0123456789_", SubSeq(s, i, i), 1) > 0

noDoubleUnderscore(s) == \A i \in 1..(Len(s) - 1) : SubSeq(s, i, i + 1) # "__"

\* C17: the sanitized title used in the addresses is the lowercased title
\* with every character outside [a-z0-9_] replaced by '_' and runs of
\* underscores collapsed: it holds only characters of [a-z0-9_], never two
\* adjacent underscores, and 'My Song! #1' becomes 'my_song_1'.
C17_SanitizedTitle ==
    \A n \in 1..Len(calls) :
        \A k \in 1..Len(calls[n].out.mappings) :
            /\ wordOnly(slugIn(calls[n], k))
            /\ noDoubleUnderscore(slugIn(calls[n], k))
            /\ slugIn(calls[n], k) = slugOf(calls[n].title)
            /\ calls[n].title = "My Song! #1" => slugIn(calls[n], k) = "my_song_1"

\* the title 'My Song! #1' was used and its mappings are at /song/my_song_1/k
C17_Witness ==
    /\ Len(calls) = 1
    /\ calls[1].title = "My Song! #1"
    /\ Len(calls[1].out.mappings) = 2
    /\ calls[1].out.mappings[2].osc_address = "/song/my_song_1/2"

(***************************************************************************)
(* Properties of a run over several files (checked under SpecIngest)       *)
(***************************************************************************)

\* the first setlist index of a run: the typed 1-based number, less one
startIndex ==
    CASE startSetlistInput = "1" -> 0
      [] startSetlistInput = "2" -> 1
      [] OTHER                   -> NaN

\* the title part of the addresses made for a file
fileSlug(name) ==
    CASE name = "Intro.csv"    -> "intro"
      [] name = "Big Song.CSV" -> "big_song"
      [] name = "notes.csv"    -> "notes"
      [] name = "empty.csv"    -> "empty"
      [] name = "Outro.csv"    -> "outro"
      [] name = "blank.csv"    -> "blank"
      [] OTHER                 -> "?"

\* the addresses /song/<title>/1 .. /song/<title>/n of one file
fileAddresses(name, n) ==
    [k \in 1..n |-> "/song/" \o fileSlug(name) \o "/" \o numeral(k)]

\* the addresses of the first i files of the run, file after file
RECURSIVE runAddresses(_)
runAddresses(i) ==
    IF i = 0 THEN << >>
    ELSE runAddresses(i - 1) \o fileAddresses(files[i].name, Len(parsed[i].mappings))

\* the last n elements of a sequence
lastOf(s, n) == SubSeq(s, Len(s) - n + 1, Len(s))

\* C18: the i-th file of a run (0-based) is parsed with setlistIndex equal to
\* the first index plus i, seen in CC 32 of every patch made from it, and
\* when the run has ended the output list ends with the mappings of the
\* files, file after file, each file's mappings in row order.
C18_FilesInOrder ==
    /\ \A i \in 1..Len(parsed) :
          parsed[i].kind = "list" =>
              \A k \in 1..Len(parsed[i].mappings) :
                  Len(parsed[i].mappings[k].midi_sequence) = 3 =>
                      /\ parsed[i].mappings[k].midi_sequence[2].control = 32
                      /\ parsed[i].mappings[k].midi_sequence[2].value = startIndex + (i - 1)
    /\ csvPhase = "done" =>
          /\ Len(parsed) = Len(files)
          /\ Len(generatedMappings) >= Len(runAddresses(Len(files)))
          /\ [j \in 1..Len(runAddresses(Len(files))) |->
                 lastOf(generatedMappings, Len(runAddresses(Len(files))))[j].osc_address]
               = runAddresses(Len(files))
          /\ lastOf(generatedMappings, Len(runAddresses(Len(files)))) = newMappingsFromCsv

\* three files from setlist 2 on: the patches carry CC 32 = 1, 2 and 3
C18_Witness ==
    /\ csvPhase = "done"
    /\ startSetlistInput = "2"
    /\ Len(files) = 3
    /\ files[1].name = "Intro.csv"
    /\ files[2].name = "Big Song.CSV"
    /\ files[3].name = "Intro.csv"
    /\ Len(generatedMappings) >= 8
    /\ lastOf(generatedMappings, 8)[3].midi_sequence[2].value = 1
    /\ lastOf(generatedMappings, 8)[4].midi_sequence[2].value = 2
    /\ lastOf(generatedMappings, 8)[8].midi_sequence[2].value = 3
    /\ lastOf(generatedMappings, 8)[4].osc_address = "/song/big_song/1"

(***************************************************************************)
(* Independence of the calls of parseSongCsvJs (checked under SpecParse)   *)
(***************************************************************************)

\* a mapping without its fresh id
withoutId(m) ==
    [osc_address |-> m.osc_address,
     description |-> m.description,
     midi_sequence |-> m.midi_sequence]

mappingsWithoutIds(c) == [k \in 1..Len(c.out.mappings) |-> withoutId(c.out.mappings[k])]

tokensOf(argsText) ==
    CASE argsText = "1"          -> << "1" >>
      [] argsText = "1.5 x"      -> << "1.5", "x" >>
      [] argsText = "12abc"      -> << "12abc" >>
      [] argsText = "-3 go"      -> << "-3", "go" >>
      [] argsText = "  7\t 8  "  -> << "7", "8" >>
      [] argsText = ".5 1e2"     -> << ".5", "1e2" >>
      [] argsText = "1st 2nd"    -> << "1st", "2nd" >>
      [] argsText = "abc"        -> << "abc" >>
      [] argsText = "Infinity -" -> << "Infinity", "-" >>
      [] argsText = "0x1F"       -> << "0x1F" >>
      [] argsText = "5. 1e+"     -> << "5.", "1e+" >>
      [] OTHER                   -> << >>

\* the tokens that are, as a whole, a floating-point number
WholeNumbers == {"1", "1.5", "-3", "7", "8", ".5", "1e2", "Infinity", "5."}

\* the arguments the claim expects for a text
expectedArgs(argsText) ==
    [j \in 1..Len(tokensOf(argsText)) |->
        [type |-> IF tokensOf(argsText)[j] \in WholeNumbers THEN "number" ELSE "string",
         text |-> tokensOf(argsText)[j]]]

\* the rows that have an address, in row order
RECURSIVE addressedRows(_)
addressedRows(rows) ==
    IF Len(rows) = 0 THEN << >>
    ELSE (IF rows[1].address # "" THEN << rows[1] >> ELSE << >>)
         \o addressedRows(Tail(rows))

\* C20: in the submitted mapping the arguments of every command are the
\* white-space separated tokens of its row, in order, a token being a number
\* when the whole token is a floating-point number and the token itself, as
\* a string, otherwise.
C20_ArgsFromTokens ==
    mappingData.kind = "request" =>
        /\ Len(mappingData.osc_sequence) = Len(addressedRows(commandRows))
        /\ \A k \in 1..Len(mappingData.osc_sequence) :
              LET text == addressedRows(commandRows)[k].args
              IN  IF text = ""
                  THEN "args" \notin DOMAIN mappingData.osc_sequence[k]
                  ELSE /\ "args" \in DOMAIN mappingData.osc_sequence[k]
                       /\ mappingData.osc_sequence[k].args = expectedArgs(text)

(***************************************************************************)
(* Further properties of the codec (checked under SpecCodec)               *)
(***************************************************************************)

\* the (control, value) pair the table of a form encoder holds for an action
tablePair(enc, category, action) ==
    IF enc = "client"
    THEN LET e == (IF category = "mode_view"
                   THEN generateModeViewSequence(action, Channel)
                   ELSE generateLooperSequence(action, Channel)).midi_sequence[1]
         IN  << e.control, e.value >>
    ELSE IF category = "mode_view" THEN modeViewPair(action) ELSE looperPair(action)

actionsOf(category) == IF category = "mode_view" THEN ModeViewOptions ELSE LooperOptions

LooperMenu == {"looper_menu_open", "looper_menu_close"}

\* C22: a mode_view or looper action encodes to exactly one control change,
\* with the (control, value) pair its table holds for it; no other action of
\* the table has that pair, the two looper menu actions share the control and
\* differ in the value, and every other looper action has the value 127.
C22_FixedPairs ==
    (/\ phase = "encoded"
     /\ encoder \in FormEncoders
     /\ params.category \in {"mode_view", "looper"}
     /\ params.address # "") =>
        /\ result.kind = "mapping"
        /\ Len(result.midi_sequence) = 1
        /\ result.midi_sequence[1].type = "control_change"
        /\ << result.midi_sequence[1].control, result.midi_sequence[1].value >>
              = tablePair(encoder, params.category, params.action)
        /\ \A other \in actionsOf(params.category) \ {params.action} :
              tablePair(encoder, params.category, other)
                  # << result.midi_sequence[1].control, result.midi_sequence[1].value >>
        /\ (params.category = "looper" /\ params.action \notin LooperMenu) =>
              result.midi_sequence[1].value = 127
        /\ (params.category = "looper" /\ params.action \in LooperMenu) =>
              \A other \in LooperMenu \ {params.action} :
                  /\ tablePair(encoder, "looper", other)[1] = result.midi_sequence[1].control
                  /\ tablePair(encoder, "looper", other)[2] # result.midi_sequence[1].value

\* the looper menu was opened from the app page: CC 48 with value 0
C22_Witness ==
    /\ phase = "encoded"
    /\ encoder = "app"
    /\ params.category = "looper"
    /\ params.action = "looper_menu_open"
    /\ result.kind = "mapping"
    /\ result.midi_sequence = << ControlChange(Channel, 48, 0) >>

\* C23: for every letter A..H (index 0..7) every encoder, the form encoders
\* and the CSV ingestion, yields for a footswitch one control change on
\* control 35 + index, which is in 35..42, with value 127, and for a scene one
\* control change on control 43 with value index, which is in 0..7.
C23_LetterControls ==
    (/\ phase = "encoded"
     /\ params.category \in {"scene", "footswitch"}
     /\ params.letter \in 0..7
     /\ params.address # "") =>
        /\ Len(producedSeqs(result)) = 1
        /\ Len(producedSeqs(result)[1]) = 1
        /\ producedSeqs(result)[1][1].type = "control_change"
        /\ producedSeqs(result)[1][1].channel = 1
        /\ params.category = "footswitch" =>
              /\ producedSeqs(result)[1][1].control = 35 + params.letter
              /\ producedSeqs(result)[1][1].control \in 35..42
              /\ producedSeqs(result)[1][1].value = 127
        /\ params.category = "scene" =>
              /\ producedSeqs(result)[1][1].control = 43
              /\ producedSeqs(result)[1][1].value = params.letter
              /\ producedSeqs(result)[1][1].value \in 0..7

\* footswitch H was ingested from a CSV row: CC 42 = 127
C23_Witness ==
    /\ phase = "encoded"
    /\ encoder = "csv"
    /\ params.category = "footswitch"
    /\ params.letter = 7
    /\ result.kind = "list"
    /\ Len(result.mappings) = 1
    /\ result.mappings[1].midi_sequence = << ControlChange(Channel, 42, 127) >>

(***************************************************************************)
(* Runs across blank lines (checked under SpecParse)                       *)
(***************************************************************************)

\* the non-blank values of the target column, in row order
RECURSIVE nonBlank(_)
nonBlank(rows) ==
    IF Len(rows) = 0 THEN << >>
    ELSE (IF rows[1] # "" THEN << rows[1] >> ELSE << >>) \o nonBlank(Tail(rows))

\* C24: the mappings of a document are those of the runs of its non-blank
\* target values: a value is compared with the last non-blank value read, so
\* an empty line, a blank target cell or a row without the target column
\* between two equal values does not start a new run ('1A', blank, '1A' is
\* one mapping), while a value that encodes to nothing does ('1A', 'junk',
\* '1A' is two mappings).
C24_RunsOfNonBlankValues ==
    \A n \in 1..Len(calls) :
        (\A i \in 1..Len(calls[n].rows) : calls[n].rows[i] \in {"1A", "FS A", "junk", ""}) =>
            descriptionsOf(calls[n])
                = [k \in 1..Len(runValuesFrom(nonBlank(calls[n].rows), 1, {"1A", "FS A"})) |->
                     describedAs(runValuesFrom(nonBlank(calls[n].rows), 1, {"1A", "FS A"})[k],
                                 calls[n].setlistNumber)]

\* '1A', a row without the target column, '1A': one mapping
C24_Witness ==
    /\ Len(calls) = 1
    /\ calls[1].doc = "Time,Song Part\n1,1A\n6\n1,1A"
    /\ calls[1].rows = << "1A", "", "1A" >>
    /\ Len(calls[1].out.mappings) = 1

\* '1A', 'junk', '1A': two mappings
C24_WitnessJunk ==
    /\ Len(calls) = 1
    /\ calls[1].rows = << "1A", "junk", "1A" >>
    /\ Len(calls[1].out.mappings) = 2

(***************************************************************************)
(* The form encoders and the ingestion as one codec (SpecCodec)            *)
(***************************************************************************)

\* what the ingestion returns for the one-row document written for p
ingested(p) ==
    parseSongCsvJs(rowDocument(p), "Song", p.setlist - 1, DefaultSettings, 1)

\* C25: for a patch in its declared domains, a scene letter and a footswitch
\* letter, the mapping a form encoder produces has the midi_sequence and the
\* description of the one mapping the ingestion produces for the row that
\* names the same parameters.
C25_IngestionIsFormCodec ==
    (/\ phase = "encoded"
     /\ encoder \in FormEncoders
     /\ params.address # ""
     /\ \/ ValidPatch
        \/ params.category \in {"scene", "footswitch"} /\ params.letter \in 0..7) =>
        /\ result.kind = "mapping"
        /\ ingested(params).kind = "list"
        /\ Len(ingested(params).mappings) = 1
        /\ ingested(params).mappings[1].midi_sequence = result.midi_sequence
        /\ ingested(params).mappings[1].description = result.description

\* patch 17A of setlist 13 from the generator page's form
C25_Witness ==
    /\ phase = "encoded"
    /\ encoder = "generator"
    /\ ValidPatch
    /\ params.number = 17
    /\ params.letter = 0
    /\ params.setlist = 13
    /\ result.kind = "mapping"
    /\ result.description = "QC: Setlist 13, Patch 17A"
    /\ ingested(params).mappings[1].description = "QC: Setlist 13, Patch 17A"

(***************************************************************************)
(* Properties of the fleet sync (checked under SpecSync)                   *)
(***************************************************************************)

\* the requests sent to a device, in the order they were sent
RECURSIVE sentTo(_, _)
sentTo(d, log) ==
    IF Len(log) = 0 THEN << >>
    ELSE (IF log[1].device = d THEN << log[1].request >> ELSE << >>) \o sentTo(d, Tail(log))

\* the requests a device is owed after the answers it has given
owed(answers) ==
    << "GET /api/config" >>
    \o (IF Len(answers) >= 1 /\ answers[1] = "ok"
        THEN << "PUT /api/config" >>
             \o (IF Len(answers) >= 2 /\ answers[2] \in {"ok", "garbled"}
                 THEN << "POST /api/system/restart" >> ELSE << >>)
        ELSE << >>)

\* the device answered its GET and its PUT with OK and its restart at all
synced(answers) ==
    /\ Len(answers) = 3
    /\ answers[1] = "ok"
    /\ answers[2] \in {"ok", "garbled"}
    /\ answers[3] # "error"

\* the posted body lacks the address or the port
lacksTarget(body) ==
    body \in {[rtp_ip |-> "", rtp_port |-> 5004], [rtp_port |-> 5004],
              [rtp_ip |-> "10.0.0.9", rtp_port |-> 0], [rtp_ip |-> "10.0.0.9"]}

requestsOf(kinds) == {n \in 1..Len(requestLog) : requestLog[n].kind \in kinds}

\* C28: a restart is requested only after the PUT of the settings of the same
\* click was answered with success; a save that failed is followed by no
\* restart.
C28_RestartAfterSavedSettings ==
    \A r \in requestsOf({"restart"}) :
        /\ requestLog[requestLog[r].after].kind = "save"
        /\ pending[requestLog[r].after].result = "ok"

\* the step in which the server takes the PUT of a settings save
saveTaken ==
    \E n \in requestsOf({"save"}) :
        /\ pending[n].stage \in {"sent", "orphan"}
        /\ pending'[n].stage \notin {"sent", "orphan"}

\* C29: whatever else is in flight, a settings save leaves the stored
\* osc_mappings as they are.
C29_SaveKeepsMappings ==
    [][saveTaken => serverConfig'.osc_mappings = serverConfig.osc_mappings]_vars

\* C27: on the app page the selected ids are ids of mappings of the loaded
\* configuration, so the count of Delete Selected and the ids of a bulk delete
\* name no mapping that is gone.
C27_SelectionWithinLoaded ==
    page = "app" => selectedMappingIds \subseteq idsOf(currentConfig)

\* C26: whatever was clicked before, the submit of a dialog opened by Add New
\* Mapping sends a create and the submit of a dialog opened by Edit on a
\* mapping sends an update addressed to the id of that mapping.
C26_SubmitFollowsDialog ==
    \A n \in requestsOf({"create", "update"}) :
        IF requestLog[n].openedAs = "add"
        THEN requestLog[n].kind = "create"
        ELSE /\ requestLog[n].kind = "update"
             /\ requestLog[n].id = requestLog[n].openedAs

\* an update of m2 from its Edit dialog was served
C26_Witness ==
    \E n \in requestsOf({"update"}) :
        /\ requestLog[n].openedAs = "m2"
        /\ requestLog[n].id = "m2"
        /\ pending[n].result = "ok"
        /\ StoredMapping("m2", "v2") \in serverConfig.osc_mappings

\* C21: the mappings of the generated list, manual or from CSV files, have
\* pairwise distinct ids, and an update of the edit flow is sent under the id
\* the mapping had when its dialog was opened (on the app page in the address
\* and in the body).
C21_IdsAssignedOnce ==
    /\ \A i, j \in 1..Len(generatedMappings) :
           i # j => generatedMappings[i].id # generatedMappings[j].id
    /\ \A n \in requestsOf({"update"}) :
           /\ requestLog[n].id = requestLog[n].openedAs
           /\ page = "app" => requestLog[n].body.id = requestLog[n].openedAs

\* the generated list holds a manual mapping and the mappings of an import
C21_Witness ==
    /\ csvPhase = "done"
    /\ submits >= 1
    /\ Len(generatedMappings) >= 3

====
